---------------------------- MODULE Spec2Model ----------------------------
(***************************************************************************)
(* A model of adbutils/_device.py: the shell exit-code extraction of       *)
(* BaseDevice.shell2, the binary sync protocol of class Sync               *)
(* (stat, iter_directory/list, push, iter_content/read_bytes/pull),        *)
(* BaseDevice.forward and forward_port, AdbDevice.install and             *)
(* install_remote (one call, and two calls at the same time),              *)
(* BaseDevice.create_connection and                                        *)
(* class _ScreenRecord.                                                    *)
(*                                                                         *)
(* Text is a sequence of one-character strings; wire data is a sequence of *)
(* bytes (0..255).  The host-server connection primitive of ._adb          *)
(* (send_command, check_okay, read, read_string, close) and the device     *)
(* are the environment of the code under src/.                             *)
(***************************************************************************)
EXTENDS Integers, Sequences, FiniteSets, TLC

VARIABLES
    \* ---- BaseDevice.shell2 ----
    sh_pc,       \* "idle" | "sent" | "ran" | "shelled" | "returned" | "raised"
    sh_cmd,      \* the command under execution, as the device shell sees it
    sh_rstrip,   \* the rstrip argument
    sh_raw,      \* everything the device wrote until it closed the channel
    sh_output,   \* the value self.shell(newcmd, rstrip=rstrip) returned
    sh_ret,      \* what shell2 returned or raised
    \* ---- class Sync ----
    sy_pc,       \* position in the running Sync operation, "idle" when none runs
    sy_op,       \* the operation called: [kind, check, srckind, dst]
    sy_cmd,      \* the cmd argument of the running _prepare_sync
    conns,       \* per connection the operation opened: how often it was closed
    wire,        \* per connection: the bytes sent on c.conn after the handshake
    inbuf,       \* the bytes the server has sent and the client has not read
    rdcount,     \* the number of response bytes the client has read
    frames,      \* the response of a faulty server, frame by frame
    src,         \* push: the readable r, [data, pos, open]
    total_size,  \* push: total_size
    yielded,     \* the items the generator has yielded to its consumer
    localfile,   \* pull: what was written to dst
    statinfo,    \* push: the FileInfo self.stat(dst) returned
    sy_res,      \* how the operation ended: [kind, error, msg, value]
    devmode,     \* "honest": the device follows the protocol; "faulty": it need not
    devfile,     \* the file at the remote path: [exists, data, mtime]
    status,      \* push: the status c.read_string(4) returned
    pushed,      \* the source of the last push to an honest device, once it has returned
    \* ---- BaseDevice.forward, forward_port ----
    fw_rules,    \* the forward rules of the host server, in its listing order
    fw_pc,       \* per calling thread: "idle" | "list" | "alloc" | "create" | "done"
    fw_arg,      \* per thread: the remote argument as the caller gave it
    fw_remote,   \* per thread: remote after the isinstance test
    fw_port,     \* per thread: local_port, or the port of the rule found
    fw_ret,      \* per thread: how the call ended, [kind, error, port, created]
    fw_hist,     \* the calls that have returned, in the order of their return
    fw_fwd,      \* the forward(local, remote) calls made: [at, local, remote], `at` the
                 \* number of forward_port calls that had returned before it
    \* ---- AdbDevice.install, install_remote ----
    ins_pc,      \* position in the running call, "idle" when none runs
    ins_args,    \* the arguments of the call
    ins_tries,   \* _tries of the retry decorator
    ins_attempts,\* how often the decorator has called the body
    ins_log,     \* the commands the call has given the device, in order
    ins_outs,    \* what the installer printed, run by run
    ins_err,     \* the exception in flight in the body
    ins_res,     \* how the call ended: [kind, exc]
    ins_copied,  \* r.copied
    ins_info,    \* info.size of the stat after the rename
    ins_mv,      \* whether the device renamed the file: "none" | "ok" | "failed"
    ins_files,   \* the device: the size of the file at "tmp" and at "new"
    ins_files0,  \* ins_files when the call began
    ins_try,     \* whether the body is inside its try block
    ins_cb,      \* the events the callback has been given, in order, each with the
                 \* number of commands the device had been given by then
    \* ---- two install workflows at the same time ----
    ci_wf,       \* per workflow: [pc, pkg, size, dst, got]
    ci_files,    \* the device: per path the file there, [owner, size], or NoApk
    ci_clock,    \* int(time.time() * 1000)
    \* ---- _ScreenRecord ----
    rec,         \* the recorder: [started, stopped, stream], stream 0 for None
    rec_log,     \* what was done to the device: [op, stream, ok], in order
    rec_calls,   \* the methods called so far, in order
    rec_res,     \* how the last call ended: "returned" | "warned" | the error raised
    \* ---- BaseDevice.create_connection ----
    cc_conns,    \* per connection a call opened: "open" | "closed"
    cc_call      \* the last call: [network, int, sent, res, conn]

shellVars == <<sh_pc, sh_cmd, sh_rstrip, sh_raw, sh_output, sh_ret>>

syncVars == <<sy_pc, sy_op, sy_cmd, conns, wire, inbuf, rdcount, frames, src,
              total_size, yielded, localfile, statinfo, sy_res, devmode, devfile,
              status, pushed>>

fwdVars == <<fw_rules, fw_pc, fw_arg, fw_remote, fw_port, fw_ret, fw_hist, fw_fwd>>

insVars == <<ins_pc, ins_args, ins_tries, ins_attempts, ins_log, ins_outs, ins_err,
             ins_res, ins_copied, ins_info, ins_mv, ins_files, ins_files0, ins_try, ins_cb>>

pairVars == <<ci_wf, ci_files, ci_clock>>

recVars == <<rec, rec_log, rec_calls, rec_res>>

conVars == <<cc_conns, cc_call>>

vars == <<shellVars, syncVars, fwdVars, insVars, pairVars, recVars, conVars>>

\* what an action of one part leaves alone
notShell == <<syncVars, fwdVars, insVars, pairVars, recVars, conVars>>
notSync == <<shellVars, fwdVars, insVars, pairVars, recVars, conVars>>
notFwd == <<shellVars, syncVars, insVars, pairVars, recVars, conVars>>
notIns == <<shellVars, syncVars, fwdVars, pairVars, recVars, conVars>>
notPair == <<shellVars, syncVars, fwdVars, insVars, recVars, conVars>>
notRec == <<shellVars, syncVars, fwdVars, insVars, pairVars, conVars>>
notCon == <<shellVars, syncVars, fwdVars, insVars, pairVars, recVars>>

(***************************************************************************)
(* Bounds                                                                  *)
(***************************************************************************)
\* number of pieces a command's own output is put together from
MaxPieces == 2
\* the milliseconds the clock can advance while two installs run
MaxClock == 1
\* the calls made on one recorder
MaxRecCalls == 3
\* the calls of create_connection
MaxConCalls == 3
\* the longest of the sources enumerated byte by byte
MaxSmallLen == 2
\* the long sources are of about 1..MaxChunks times the push chunk size
MaxChunks == 2
\* frames in the response of a faulty server
MaxFrames == 3
\* the size of a short read of a stream source
ShortRead == 1500
\* the chunk size the device uses to send a file
DevChunk == 3000

(***************************************************************************)
(* Text helpers                                                            *)
(***************************************************************************)
Max(S) == CHOOSE x \in S : \A y \in S : y <= x

RECURSIVE Concat(_)
Concat(ss) == IF ss = <<>> THEN <<>> ELSE Head(ss) \o Concat(Tail(ss))

\* s[i:] and s[:i] of Python, 0 <= i <= len(s)
From(s, i) == SubSeq(s, i + 1, Len(s))
Upto(s, i) == SubSeq(s, 1, i)

\* the digits of int(), ASCII: int() takes the decimal digits of other scripts too,
\* and no text of this model has one of those
DigitChars == <<"0", "1", "2", "3", "4", "5", "6", "7", "8", "9">>
IsDigit(c) == \E i \in 1..10 : DigitChars[i] = c
DigitVal(c) == (CHOOSE i \in 1..10 : DigitChars[i] = c) - 1

\* the control characters \x0b (vertical tab) and \x1c .. \x1f (the separators),
\* and \x85 (next line) and \xa0 (no-break space), written as they are
VT == ""
FS == ""
GS == ""
RS == ""
US == ""
NEL == ""
NBSP == " "

\* the white space int() skips around a number: the six of ASCII, and the white
\* space beyond ASCII (the spaces above \xff are in no text of this model)
IsIntSpace(c) == c \in {" ", "\n", "\t", "\r", "\f", VT, NEL, NBSP}

\* the white space of str.rstrip(): that of int(), and the four separators
IsSpace(c) == IsIntSpace(c) \/ c \in {FS, GS, RS, US}

\* str.rstrip(): drop the white space at the end
RECURSIVE RStrip(_)
RStrip(s) ==
    IF s = <<>> THEN <<>>
    ELSE IF IsSpace(s[Len(s)]) THEN RStrip(Upto(s, Len(s) - 1))
    ELSE s

\* int(): the text without the white space int() skips at its two ends
RECURSIVE IntStrip(_)
IntStrip(s) ==
    IF s = <<>> THEN <<>>
    ELSE IF IsIntSpace(s[1]) THEN IntStrip(Tail(s))
    ELSE IF IsIntSpace(s[Len(s)]) THEN IntStrip(Upto(s, Len(s) - 1))
    ELSE s

\* str.rfind(sub): the highest 0-based index at which sub occurs, -1 if none
Occurs(s, sub, i) == i + Len(sub) <= Len(s) /\ SubSeq(s, i + 1, i + Len(sub)) = sub
RFind(s, sub) ==
    LET at == {i \in 0..Len(s) : Occurs(s, sub, i)}
    IN  IF at = {} THEN -1 ELSE Max(at)

\* the digits of int(): decimal digits, single underscores allowed between them
RECURSIVE DigitsOk(_, _)
DigitsOk(s, afterDigit) ==
    IF s = <<>> THEN afterDigit
    ELSE IF IsDigit(s[1]) THEN DigitsOk(Tail(s), TRUE)
    ELSE IF s[1] = "_" THEN afterDigit /\ Len(s) > 1 /\ IsDigit(s[2]) /\ DigitsOk(Tail(s), FALSE)
    ELSE FALSE

RECURSIVE DigitsValue(_, _)
DigitsValue(s, acc) ==
    IF s = <<>> THEN acc
    ELSE IF s[1] = "_" THEN DigitsValue(Tail(s), acc)
    ELSE DigitsValue(Tail(s), 10 * acc + DigitVal(s[1]))

\* int(text): white space around, an optional sign, digits; ValueError otherwise
PyInt(text) ==
    LET t == IntStrip(text)
        signed == t # <<>> /\ t[1] \in {"+", "-"}
        body == IF signed THEN Tail(t) ELSE t
    IN  IF DigitsOk(body, FALSE)
        THEN [ok |-> TRUE,
              val |-> IF signed /\ t[1] = "-" THEN 0 - DigitsValue(body, 0)
                      ELSE DigitsValue(body, 0)]
        ELSE [ok |-> FALSE, val |-> 0]

\* str(n) for n >= 0, as the device shell prints $?
RECURSIVE Decimal(_)
Decimal(n) ==
    IF n < 10 THEN <<DigitChars[n + 1]>>
    ELSE Decimal(n \div 10) \o <<DigitChars[(n % 10) + 1]>>

(***************************************************************************)
(* BaseDevice.shell / BaseDevice.shell2                                    *)
(***************************************************************************)
MAGIC == <<"X", "4", "E", "X", "I", "T", ":">>

\* BaseDevice.shell with stream=False: the buffered output, rstrip()ed on demand
Shell(raw, rstrip) == IF rstrip THEN RStrip(raw) ELSE raw

NoReturn == [kind |-> "none", returncode |-> 0, output |-> <<>>]
Raise(error) == [kind |-> error, returncode |-> 0, output |-> <<>>]

\* str.find(sub): the lowest index at which sub occurs, -1 if none
Find(s, sub) ==
    LET at == {i \in 0..Len(s) : Occurs(s, sub, i)}
    IN  IF at = {} THEN -1 ELSE CHOOSE i \in at : \A j \in at : i <= j

\* shell2 scanning for the first marker instead of the last
Shell2ParseFirst(output) ==
    LET rindex == Find(output, MAGIC)
    IN  IF rindex = -1 THEN Raise("AdbError")
        ELSE LET code == PyInt(From(output, rindex + Len(MAGIC)))
             IN  IF ~code.ok THEN Raise("ValueError")
                 ELSE [kind |-> "ShellReturn",
                       returncode |-> code.val,
                       output |-> Upto(output, rindex)]

\* The part of shell2 after self.shell() returned `output`
Shell2Parse(output) ==
    LET rindex == RFind(output, MAGIC)
    IN  IF rindex = -1 THEN Raise("AdbError")
        ELSE LET code == PyInt(From(output, rindex + Len(MAGIC)))
             IN  IF ~code.ok THEN Raise("ValueError")
                 ELSE [kind |-> "ShellReturn",
                       returncode |-> code.val,
                       output |-> Upto(output, rindex)]

\* ---- the inputs ----
Pieces == {<<"h", "i">>, <<"\n">>, <<" ">>, <<"7">>, <<VT>>, <<FS>>, MAGIC}

RECURSIVE PieceSeqs(_)
PieceSeqs(n) ==
    IF n = 0 THEN {<<>>}
    ELSE PieceSeqs(n - 1) \cup {Append(p, x) : p \in PieceSeqs(n - 1), x \in Pieces}

\* what a command may print
Outputs == {Concat(p) : p \in PieceSeqs(MaxPieces)}

\* exit statuses of a command
Statuses == {0, 1, 7, 10, 255}

\* what may follow the marker when the channel does not carry `echo`'s line as is
Tails == {<<>>, <<"7">>, <<"7", "\n">>, <<" ", "7", " ">>, <<"-", "1">>, <<"+", "7">>,
          <<"1", "_", "0">>, <<"_", "1">>, <<"1", "_">>, <<"1", "_", "_", "0">>,
          <<"x">>, <<"7", "x">>, <<"7", "\n", "h", "i">>, <<"-">>, <<"\n">>,
          <<"7", "\f">>, <<"\f", "7">>, <<"7", VT>>, <<VT, "-", "1">>, <<"7", FS>>,
          <<NBSP, "7", NEL>>}

\* A command as the device shell sees it.
\*   "plain": prints `out`, ends with `status`, and the shell goes on to the next command
\*   "exit":  the builtin `exit status`, which ends the shell
\*   "cut":   a channel that delivers `out`, then `marker` (MAGIC or nothing), then
\*            `tail`, whatever the shell meant to write
Commands ==
    [kind : {"plain"}, out : Outputs, status : Statuses, marker : {MAGIC}, tail : {<<>>}]
    \cup [kind : {"exit"}, out : {<<>>}, status : Statuses, marker : {MAGIC}, tail : {<<>>}]
    \cup [kind : {"cut"}, out : Outputs, status : {0}, marker : {<<>>, MAGIC}, tail : Tails]

NoCommand == [kind |-> "none", out |-> <<>>, status |-> 0, marker |-> <<>>, tail |-> <<>>]

\* The device shell running newcmd = cmd + "; echo X4EXIT:$?" until the channel closes
DeviceShell(cmd) ==
    CASE cmd.kind = "plain" -> cmd.out \o MAGIC \o Decimal(cmd.status) \o <<"\n">>
      [] cmd.kind = "exit"  -> <<>>
      [] OTHER              -> cmd.out \o cmd.marker \o cmd.tail

ShellInit ==
    /\ sh_pc = "idle"
    /\ sh_cmd = NoCommand
    /\ sh_rstrip = TRUE
    /\ sh_raw = <<>>
    /\ sh_output = <<>>
    /\ sh_ret = NoReturn

\* shell2(cmdargs, rstrip): newcmd is built and handed to self.shell
Shell2Call(cmd, rstrip) ==
    /\ sh_pc = "idle"
    /\ sh_pc' = "sent"
    /\ sh_cmd' = cmd
    /\ sh_rstrip' = rstrip
    /\ sh_raw' = <<>>
    /\ sh_output' = <<>>
    /\ sh_ret' = NoReturn
    /\ UNCHANGED notShell

\* the device runs newcmd and closes the channel
DeviceRun ==
    /\ sh_pc = "sent"
    /\ sh_pc' = "ran"
    /\ sh_raw' = DeviceShell(sh_cmd)
    /\ UNCHANGED <<sh_cmd, sh_rstrip, sh_output, sh_ret>>
    /\ UNCHANGED notShell

\* self.shell(newcmd, timeout=timeout, rstrip=rstrip) returns
ShellReturns ==
    /\ sh_pc = "ran"
    /\ sh_pc' = "shelled"
    /\ sh_output' = Shell(sh_raw, sh_rstrip)
    /\ UNCHANGED <<sh_cmd, sh_rstrip, sh_raw, sh_ret>>
    /\ UNCHANGED notShell

\* rfind, int and the ShellReturn
Shell2Finish ==
    /\ sh_pc = "shelled"
    /\ sh_ret' = Shell2Parse(sh_output)
    /\ sh_pc' = IF sh_ret'.kind = "ShellReturn" THEN "returned" ELSE "raised"
    /\ UNCHANGED <<sh_cmd, sh_rstrip, sh_raw, sh_output>>
    /\ UNCHANGED notShell

\* the caller has the ShellReturn or the exception; the device object takes the next call
Shell2Done ==
    /\ sh_pc \in {"returned", "raised"}
    /\ sh_pc' = "idle"
    /\ sh_cmd' = NoCommand
    /\ sh_rstrip' = TRUE
    /\ sh_raw' = <<>>
    /\ sh_output' = <<>>
    /\ sh_ret' = NoReturn
    /\ UNCHANGED notShell

ShellNext ==
    \/ \E cmd \in Commands, rstrip \in BOOLEAN : Shell2Call(cmd, rstrip)
    \/ DeviceRun
    \/ ShellReturns
    \/ Shell2Finish
    \/ Shell2Done

(***************************************************************************)
(* Wire data: bytes, little-endian 32-bit fields, the 4-byte command codes *)
(***************************************************************************)
Min(a, b) == IF a <= b THEN a ELSE b

\* struct.pack("<I", n), for the n below 2^31 that occur here (lengths, sizes, modes
\* and times; the unsigned field itself goes up to 2^32 - 1)
Pack32(n) == <<n % 256, (n \div 256) % 256, (n \div 65536) % 256, (n \div 16777216) % 256>>

\* struct.unpack("<I", b)[0], b of 4 bytes: the unsigned field, up to 2^32 - 1.  The
\* integers of the checker end at 2^31 - 1, and it stops with an overflow on a field
\* beyond that; the frames of the devices below keep every field under 2^31.
Unpack32(b) == b[1] + 256 * b[2] + 65536 * b[3] + 16777216 * b[4]

\* the command codes, ASCII
OKAY == <<79, 75, 65, 89>>
FAIL == <<70, 65, 73, 76>>
DENT == <<68, 69, 78, 84>>
DONE == <<68, 79, 78, 69>>
DATA == <<68, 65, 84, 65>>
STAT == <<83, 84, 65, 84>>
LIST == <<76, 73, 83, 84>>
SEND == <<83, 69, 78, 68>>
RECV == <<82, 69, 67, 86>>
QUIT == <<81, 85, 73, 84>>

\* the chunk size of push
CHUNK == 4096

\* A path is a str: the sequence of its code points.  dst "/f", and a dst with a
\* lone surrogate, "/\ud800"
DstPath == <<47, 102>>
SurrogatePath == <<47, 55296>>
DstPaths == {DstPath, SurrogatePath}
\* the path of SEND, dst + "," + str(stat.S_IFREG | 0o755); the path of the others
PathOf(cmd, dst) == IF cmd = SEND THEN dst \o <<44>> \o <<51, 51, 50, 54, 49>> ELSE dst
SendPath == PathOf(SEND, DstPath)

\* the code points encode("utf-8") refuses
Surrogates == 55296..57343
\* what an encode or a pack gives: the error raised, or the bytes
Encoded(error, bytes) == [error |-> error, bytes |-> bytes]

\* the UTF-8 form of code points that are no surrogates: one to four bytes each
RECURSIVE Utf8Bytes(_)
Utf8Bytes(path) ==
    IF path = <<>> THEN <<>>
    ELSE LET cp == Head(path)
             bytes == IF cp < 128 THEN <<cp>>
                      ELSE IF cp < 2048 THEN <<192 + (cp \div 64), 128 + (cp % 64)>>
                      ELSE IF cp < 65536
                      THEN <<224 + (cp \div 4096), 128 + ((cp \div 64) % 64),
                             128 + (cp % 64)>>
                      ELSE <<240 + (cp \div 262144), 128 + ((cp \div 4096) % 64),
                             128 + ((cp \div 64) % 64), 128 + (cp % 64)>>
         IN  bytes \o Utf8Bytes(Tail(path))

\* path.encode("utf-8"): UnicodeEncodeError for a path with a surrogate
Utf8(path) ==
    IF \E i \in 1..Len(path) : path[i] \in Surrogates
    THEN Encoded("UnicodeEncodeError", <<>>)
    ELSE Encoded("", Utf8Bytes(path))

\* the bytes _prepare_sync sends after the handshake: the length field is len(path),
\* the number of characters of the str, and what follows is its UTF-8 encoding; the
\* error of the encoding when it raises, and then nothing is sent
Request(cmd, path) ==
    IF Utf8(path).error # "" THEN Utf8(path)
    ELSE Encoded("", cmd \o Pack32(Len(path)) \o Utf8(path).bytes)

\* AdbConnection.read(n) / read_string(n) / conn.recv(n) on the bytes the server
\* sent before it closed: n bytes, fewer at the end of the stream (the socket hands
\* out what a header needs in one piece)
Recv(buf, n) == SubSeq(buf, 1, Min(n, Len(buf)))

(***************************************************************************)
(* One round of each response loop, on the unread bytes `buf`.             *)
(* The result: out = "yield" | "stop" | "raise", the error raised, the     *)
(* item yielded or returned, the message of the error, the bytes read.     *)
(***************************************************************************)
NoItem == <<>>
Step(out, error, item, msg, used) ==
    [out |-> out, error |-> error, item |-> item, msg |-> msg, used |-> used]

FileInfo(mode, size, mtime, path) ==
    [mode |-> mode, size |-> size, mtime |-> mtime, path |-> path]
\* mtime of a FileInfo that has none
None == -1

\* Sync.stat: the body of the with block
StatStep(buf, path) ==
    LET code == Recv(buf, 4)
        hdr == Recv(From(buf, Len(code)), 12)
    IN  IF code # STAT THEN Step("raise", "AssertionError", NoItem, <<>>, Len(code))
        ELSE IF Len(hdr) < 12
        THEN Step("raise", "struct.error", NoItem, <<>>, Len(code) + Len(hdr))
        ELSE LET mode == Unpack32(SubSeq(hdr, 1, 4))
                 size == Unpack32(SubSeq(hdr, 5, 8))
                 mtime == Unpack32(SubSeq(hdr, 9, 12))
             IN  Step("stop", "",
                      FileInfo(mode, size, IF mtime # 0 THEN mtime ELSE None, path),
                      <<>>, 16)

\* iter_directory that unpacks the 16 bytes after the code before it looks at the code
ListStepReadsAhead(buf) ==
    LET response == Recv(buf, 4)
        hdr == Recv(From(buf, Len(response)), 16)
    IN  IF response = DONE THEN Step("stop", "", NoItem, <<>>, Len(response) + Len(hdr))
        ELSE IF Len(hdr) < 16
        THEN Step("raise", "struct.error", NoItem, <<>>, Len(response) + Len(hdr))
        ELSE Step("yield", "",
                  FileInfo(Unpack32(SubSeq(hdr, 1, 4)), Unpack32(SubSeq(hdr, 5, 8)),
                           Unpack32(SubSeq(hdr, 9, 12)),
                           Recv(From(buf, 20), Unpack32(SubSeq(hdr, 13, 16)))),
                  <<>>, 20 + Len(Recv(From(buf, 20), Unpack32(SubSeq(hdr, 13, 16)))))

\* Sync.iter_directory: one round of the while loop
ListStep(buf) ==
    LET response == Recv(buf, 4)
        hdr == Recv(From(buf, Len(response)), 16)
    IN  IF response = DONE THEN Step("stop", "", NoItem, <<>>, 4)
        ELSE IF Len(hdr) < 16
        THEN Step("raise", "struct.error", NoItem, <<>>, Len(response) + Len(hdr))
        ELSE LET mode == Unpack32(SubSeq(hdr, 1, 4))
                 size == Unpack32(SubSeq(hdr, 5, 8))
                 mtime == Unpack32(SubSeq(hdr, 9, 12))
                 namelen == Unpack32(SubSeq(hdr, 13, 16))
                 name == Recv(From(buf, 20), namelen)
             IN  Step("yield", "", FileInfo(mode, size, mtime, name), <<>>,
                      20 + Len(name))

\* iter_content that takes a FAIL segment for the end of the file
RecvStepFailEnds(buf) ==
    LET cmd == Recv(buf, 4)
        lenb == Recv(From(buf, Len(cmd)), 4)
    IN  IF cmd = FAIL \/ cmd = DONE THEN Step("stop", "", NoItem, <<>>, 4)
        ELSE IF cmd = DATA
        THEN IF Len(lenb) < 4
             THEN Step("raise", "struct.error", NoItem, <<>>, Len(cmd) + Len(lenb))
             ELSE LET chunk_size == Unpack32(lenb)
                      chunk == Recv(From(buf, 8), chunk_size)
                  IN  IF Len(chunk) # chunk_size
                      THEN Step("raise", "RuntimeError", NoItem, <<>>, 8 + Len(chunk))
                      ELSE Step("yield", "", chunk, <<>>, 8 + Len(chunk))
        ELSE Step("raise", "AdbError", NoItem, cmd, Len(cmd))

\* Sync.iter_content: one round of the while loop
RecvStep(buf) ==
    LET cmd == Recv(buf, 4)
        lenb == Recv(From(buf, Len(cmd)), 4)
    IN  IF cmd = FAIL
        THEN IF Len(lenb) < 4
             THEN Step("raise", "struct.error", NoItem, <<>>, Len(cmd) + Len(lenb))
             ELSE LET error_message == Recv(From(buf, 8), Unpack32(lenb))
                  IN  Step("raise", "AdbError", NoItem, error_message,
                           8 + Len(error_message))
        ELSE IF cmd = DONE THEN Step("stop", "", NoItem, <<>>, 4)
        ELSE IF cmd = DATA
        THEN IF Len(lenb) < 4
             THEN Step("raise", "struct.error", NoItem, <<>>, Len(cmd) + Len(lenb))
             ELSE LET chunk_size == Unpack32(lenb)
                      chunk == Recv(From(buf, 8), chunk_size)
                  IN  IF Len(chunk) # chunk_size
                      THEN Step("raise", "RuntimeError", NoItem, <<>>, 8 + Len(chunk))
                      ELSE Step("yield", "", chunk, <<>>, 8 + Len(chunk))
        ELSE Step("raise", "AdbError", NoItem, cmd, Len(cmd))

(***************************************************************************)
(* Sync.push: the source and the frames                                    *)
(***************************************************************************)
\* r.read(n) when the stream hands out `n` bytes at most
SrcRead(s, n) == SubSeq(s.data, s.pos + 1, Min(s.pos + n, Len(s.data)))

\* what one r.read(4096) hands out at most: all there is up to 4096 from a file or a
\* BytesIO; a stream may hand out less, here ShortRead bytes
ReadLimits(srckind) == IF srckind = "stream" THEN {Min(ShortRead, CHUNK), CHUNK} ELSE {CHUNK}

\* `if not chunk` with the test of a short chunk in its place
AtEndShort(chunk) == Len(chunk) < CHUNK

\* `if not chunk`
AtEnd(chunk) == chunk = <<>>

\* the header of a DATA frame that announces the chunk size limit
DataHeaderFixed(chunk) == DATA \o Pack32(CHUNK)

\* b"DATA" + struct.pack("<I", len(chunk))
DataHeader(chunk) == DATA \o Pack32(Len(chunk))

\* b"DONE" + struct.pack("<I", mtime)
DoneFrame(mtime) == DONE \o Pack32(mtime)

\* int(datetime.datetime.now().timestamp())
Times == {77}

\* `total_size != file_size` as `total_size > file_size`
SizeMismatchGreater(total, file_size) == total > file_size

\* `total_size != file_size`
SizeMismatch(total, file_size) == total # file_size

(***************************************************************************)
(* _prepare_sync: the finally clause                                       *)
(***************************************************************************)
\* c.close() only when the with block ends without an exception
CloseOnSuccess(cs, raised) ==
    IF raised THEN cs ELSE [cs EXCEPT ![Len(cs)] = @ + 1]

\* finally: c.close(), of the connection opened last
CloseConn(cs, raised) == [cs EXCEPT ![Len(cs)] = @ + 1]
(***************************************************************************)
(* The device behind the sync: service, and the inputs                     *)
(***************************************************************************)
Absent == [exists |-> FALSE, data |-> <<>>, mtime |-> 0]

\* What the sync service makes of the bytes after a SEND request: DATA segments up
\* to DONE + mtime.  [ok, chunks, mtime, rest]
RECURSIVE DeviceParse(_, _)
DeviceParse(body, chunks) ==
    LET code == Recv(body, 4)
        word == Recv(From(body, Len(code)), 4)
    IN  IF Len(word) < 4 \/ code \notin {DATA, DONE}
        THEN [ok |-> FALSE, chunks |-> chunks, mtime |-> 0, rest |-> body]
        ELSE IF code = DONE
        THEN [ok |-> TRUE, chunks |-> chunks, mtime |-> Unpack32(word), rest |-> From(body, 8)]
        ELSE LET n == Unpack32(word)
                 payload == Recv(From(body, 8), n)
             IN  IF Len(payload) < n
                 THEN [ok |-> FALSE, chunks |-> chunks, mtime |-> 0, rest |-> body]
                 ELSE DeviceParse(From(body, 8 + n), Append(chunks, payload))

\* the bytes sent on a SEND connection after the request
SentBody(out) == From(out, Len(Request(SEND, SendPath).bytes))

\* the file a device has after a SEND, if it stores exactly the DATA payloads it got
DeviceStore(out, old) ==
    LET p == DeviceParse(SentBody(out), <<>>)
    IN  IF p.ok THEN [exists |-> TRUE, data |-> Concat(p.chunks), mtime |-> p.mtime]
        ELSE old

\* a file as DATA segments of DevChunk bytes at most
RECURSIVE DataSegments(_)
DataSegments(data) ==
    IF data = <<>> THEN <<>>
    ELSE LET n == Min(Len(data), DevChunk)
         IN  DATA \o Pack32(n) \o SubSeq(data, 1, n) \o DataSegments(From(data, n))

FrameSTAT(mode, size, mtime) == STAT \o Pack32(mode) \o Pack32(size) \o Pack32(mtime)
FrameDENT(mode, size, mtime, name) ==
    DENT \o Pack32(mode) \o Pack32(size) \o Pack32(mtime) \o Pack32(Len(name)) \o name
FrameDATA(chunk) == DATA \o Pack32(Len(chunk)) \o chunk
FrameFAIL(msg) == FAIL \o Pack32(Len(msg)) \o msg

\* S_IFREG | 0o755
FileMode == 33261
\* S_IFDIR | 0o500, the mode of the entries a faulty server lists
DirMode == 16704
\* "no": the text of a FAIL
NoText == <<110, 111>>

\* the answer of a device that follows the protocol
HonestResponse(cmd, file) ==
    CASE cmd = STAT ->
            IF file.exists THEN FrameSTAT(FileMode, Len(file.data), file.mtime)
            ELSE FrameSTAT(0, 0, 0)
      [] cmd = LIST ->
            IF file.exists
            THEN FrameDENT(FileMode, Len(file.data), file.mtime, <<102>>) \o DONE
            ELSE DONE
      [] cmd = RECV ->
            IF file.exists THEN DataSegments(file.data) \o DONE
            ELSE FrameFAIL(NoText)
      [] OTHER -> <<>>

\* the frames a faulty server puts its answers together from
FaultyFrames(cmd) ==
    CASE cmd = STAT ->
            {FrameSTAT(FileMode, 0, 77), FrameSTAT(FileMode, 2, 77),
             FrameSTAT(FileMode, CHUNK + 1, 77), FrameSTAT(0, 0, 0),
             FrameFAIL(NoText), QUIT \o Pack32(1) \o Pack32(2) \o Pack32(3),
             STAT \o Pack32(FileMode)}
      [] cmd = LIST ->
            {FrameDENT(DirMode, 1, 77, <<97>>), FrameDENT(DirMode, 2, 0, <<98, 99>>),
             DONE, FrameFAIL(NoText),
             QUIT \o Pack32(1) \o Pack32(2) \o Pack32(3) \o Pack32(1) \o <<100>>,
             DENT \o Pack32(DirMode)}
      [] cmd = RECV ->
            {FrameDATA(<<7>>), FrameDATA(<<7, 200>>), FrameDATA(<<>>), DONE,
             FrameFAIL(NoText), QUIT \o Pack32(1) \o <<9>>,
             DATA \o Pack32(3) \o <<7>>, <<68, 65>>}
      [] OTHER -> {OKAY, FrameFAIL(NoText), QUIT, <<>>}

RECURSIVE FrameSeqsUpTo(_, _)
FrameSeqsUpTo(cmd, n) ==
    IF n = 0 THEN {<<>>}
    ELSE FrameSeqsUpTo(cmd, n - 1)
         \cup {Append(fs, f) : fs \in FrameSeqsUpTo(cmd, n - 1), f \in FaultyFrames(cmd)}

\* the answers of a faulty server: STAT is a one-frame exchange, one more frame after it
FrameSeqs(cmd) == FrameSeqsUpTo(cmd, IF cmd = STAT THEN 2 ELSE MaxFrames)

\* the sources of push
RECURSIVE ByteSeqs(_)
ByteSeqs(n) ==
    IF n = 0 THEN {<<>>}
    ELSE ByteSeqs(n - 1) \cup {Append(b, x) : b \in ByteSeqs(n - 1), x \in {7, 200}}

Pattern(n) == [i \in 1..n |-> (i * 37) % 251]

Sources ==
    ByteSeqs(MaxSmallLen)
    \cup {Pattern(k * CHUNK + d) : k \in 1..MaxChunks, d \in {-1, 0, 1}}

\* the operations: [kind, check, srckind, dst], dst the path on the device
PlainOps ==
    [kind : {"stat", "iter_directory", "list", "iter_content", "read_bytes", "pull"},
     check : {FALSE}, srckind : {"none"}, dst : DstPaths]
PushOps == [kind : {"push"}, check : BOOLEAN, srckind : {"bytes", "stream"}, dst : DstPaths]
NoOp == [kind |-> "none", check |-> FALSE, srckind |-> "none", dst |-> <<>>]

CmdOf(kind) ==
    CASE kind = "stat" -> STAT
      [] kind \in {"iter_directory", "list"} -> LIST
      [] kind = "push" -> SEND
      [] OTHER -> RECV

\* the operations whose generator the caller holds and may close
Lazy(kind) == kind \in {"iter_directory", "iter_content"}
(***************************************************************************)
(* class Sync: the operations, step by step                                *)
(***************************************************************************)
NoSrc == [data |-> <<>>, pos |-> 0, open |-> FALSE]
NoInfo == FileInfo(0, 0, None, <<>>)
Res(kind, error, msg, value) == [kind |-> kind, error |-> error, msg |-> msg, value |-> value]
NoRes == Res("none", "", <<>>, <<>>)

\* no Sync operation is running and none has left anything behind
SyncIdle ==
    /\ sy_pc = "idle"
    /\ sy_op = NoOp
    /\ sy_cmd = <<>>
    /\ conns = <<>>
    /\ wire = <<>>
    /\ inbuf = <<>>
    /\ rdcount = 0
    /\ frames = <<>>
    /\ src = NoSrc
    /\ total_size = 0
    /\ yielded = <<>>
    /\ localfile = <<>>
    /\ statinfo = NoInfo
    /\ sy_res = NoRes
    /\ status = <<>>

NotPushed == [known |-> FALSE, data |-> <<>>]
\* the record of a push that has returned, kept for the devices that store what they get
Pushed(data) == IF devmode = "honest" THEN [known |-> TRUE, data |-> data] ELSE NotPushed

SyncInit ==
    /\ SyncIdle
    /\ devmode \in {"honest", "faulty"}
    /\ devfile = Absent
    /\ pushed = NotPushed

\* c.conn.send(bytes) on the connection opened last
SendOn(w, bytes) == [w EXCEPT ![Len(w)] = @ \o bytes]

\* A call of stat, iter_directory, list, push, iter_content, read_bytes or pull, up to
\* _prepare_sync.  push turns src into a readable (lines 317-325); pull opens dst.
Call(op, data) ==
    /\ sy_pc = "idle"
    /\ sy_pc' = "connect"
    /\ sy_op' = op
    /\ sy_cmd' = CmdOf(op.kind)
    /\ src' = IF op.kind = "push" THEN [data |-> data, pos |-> 0, open |-> TRUE] ELSE NoSrc
    /\ pushed' = IF op.kind = "push" THEN NotPushed ELSE pushed
    /\ UNCHANGED <<conns, wire, inbuf, rdcount, frames, total_size, yielded, localfile,
                   statinfo, sy_res, devmode, devfile, status>>
    /\ UNCHANGED notSync

\* c = self._adbclient._connect()
Connect ==
    /\ sy_pc = "connect"
    /\ sy_pc' = "transport"
    /\ conns' = Append(conns, 0)
    /\ wire' = Append(wire, <<>>)
    /\ inbuf' = <<>>
    /\ rdcount' = 0
    /\ frames' = <<>>
    /\ UNCHANGED <<sy_op, sy_cmd, src, total_size, yielded, localfile, statinfo, sy_res,
                   devmode, devfile, status, pushed>>
    /\ UNCHANGED notSync

\* _connect() raises: no connection, and _prepare_sync is not yet in its try
ConnectFail ==
    /\ sy_pc = "connect"
    /\ sy_pc' = "done"
    /\ sy_res' = Res("raised", "ConnectionError", <<>>, <<>>)
    /\ UNCHANGED <<sy_op, sy_cmd, conns, wire, inbuf, rdcount, frames, src, total_size,
                   yielded, localfile, statinfo, devmode, devfile, status, pushed>>
    /\ UNCHANGED notSync

\* send_command("host:transport:<serial>"); check_okay()
Transport(ok) ==
    /\ sy_pc = "transport"
    /\ IF ok
       THEN /\ sy_pc' = "syncsel"
            /\ UNCHANGED <<conns, sy_res>>
       ELSE /\ sy_pc' = "done"
            /\ conns' = CloseConn(conns, TRUE)
            /\ sy_res' = Res("raised", "AdbError", <<>>, <<>>)
    /\ UNCHANGED <<sy_op, sy_cmd, wire, inbuf, rdcount, frames, src, total_size, yielded,
                   localfile, statinfo, devmode, devfile, status, pushed>>
    /\ UNCHANGED notSync

\* send_command("sync:"); check_okay()
SyncSelect(ok) ==
    /\ sy_pc = "syncsel"
    /\ IF ok
       THEN /\ sy_pc' = "request"
            /\ UNCHANGED <<conns, sy_res>>
       ELSE /\ sy_pc' = "done"
            /\ conns' = CloseConn(conns, TRUE)
            /\ sy_res' = Res("raised", "AdbError", <<>>, <<>>)
    /\ UNCHANGED <<sy_op, sy_cmd, wire, inbuf, rdcount, frames, src, total_size, yielded,
                   localfile, statinfo, devmode, devfile, status, pushed>>
    /\ UNCHANGED notSync

\* c.conn.send(cmd + length + path); yield c.  The server answers STAT, LIST and RECV.
\* When the path cannot be encoded, or the send raises (~sent), nothing is sent:
\* finally c.close(), and the error.
SendRequest(sent) ==
    /\ sy_pc = "request"
    /\ LET request == Request(sy_cmd, PathOf(sy_cmd, sy_op.dst))
       IN  IF request.error # "" \/ ~sent
           THEN /\ request.error # "" => sent
                /\ sy_pc' = "done"
                /\ conns' = CloseConn(conns, TRUE)
                /\ sy_res' = Res("raised",
                                 IF request.error # "" THEN request.error
                                 ELSE "BrokenPipeError", <<>>, <<>>)
                /\ UNCHANGED <<wire, frames, inbuf>>
           ELSE /\ wire' = SendOn(wire, request.bytes)
                /\ \E fs \in (IF devmode = "faulty" /\ sy_cmd # SEND THEN FrameSeqs(sy_cmd)
                               ELSE {<<>>}) :
                      /\ frames' = fs
                      /\ inbuf' = IF sy_cmd = SEND THEN <<>>
                                  ELSE IF devmode = "faulty" THEN Concat(fs)
                                  ELSE HonestResponse(sy_cmd, devfile)
                /\ sy_pc' = CASE sy_cmd = STAT -> "stat_reply"
                              [] sy_cmd = LIST -> "list_read"
                              [] sy_cmd = SEND -> "push_read"
                              [] OTHER -> "recv_read"
                /\ UNCHANGED <<conns, sy_res>>
    /\ UNCHANGED <<sy_op, sy_cmd, rdcount, src, total_size, yielded, localfile,
                   statinfo, devmode, devfile, status, pushed>>
    /\ UNCHANGED notSync

\* push: one round of the while loop, r.read(4096) handing out n bytes at most
PushRead(n) ==
    /\ sy_pc = "push_read"
    /\ LET chunk == SrcRead(src, n)
       IN  IF AtEnd(chunk)
           THEN /\ \E mtime \in Times : wire' = SendOn(wire, DoneFrame(mtime))
                /\ sy_pc' = "push_wait"
                /\ UNCHANGED <<src, total_size>>
           ELSE /\ wire' = SendOn(SendOn(wire, DataHeader(chunk)), chunk)
                /\ total_size' = total_size + Len(chunk)
                /\ src' = [src EXCEPT !.pos = @ + Len(chunk)]
                /\ sy_pc' = "push_read"
    /\ UNCHANGED <<sy_op, sy_cmd, conns, inbuf, rdcount, frames, yielded, localfile,
                   statinfo, sy_res, devmode, devfile, status, pushed>>
    /\ UNCHANGED notSync

\* push: one round of the while loop in which a c.conn.send raises (the connection
\* broke).  The chunk is read before anything is sent; `at` is the send that raises:
\* the DONE frame, the DATA header, or the chunk after its header went out.  Then
\* finally r.close(), and c.close().
PushSendError(n, at) ==
    /\ sy_pc = "push_read"
    /\ devmode = "faulty"
    /\ LET chunk == SrcRead(src, n)
       IN  /\ IF AtEnd(chunk) THEN at = "done" ELSE at \in {"header", "chunk"}
           /\ wire' = IF at = "chunk" THEN SendOn(wire, DataHeader(chunk)) ELSE wire
           /\ src' = [src EXCEPT !.pos = @ + Len(chunk), !.open = FALSE]
    /\ sy_pc' = "done"
    /\ conns' = CloseConn(conns, TRUE)
    /\ sy_res' = Res("raised", "BrokenPipeError", <<>>, <<>>)
    /\ UNCHANGED <<sy_op, sy_cmd, inbuf, rdcount, frames, total_size, yielded,
                   localfile, statinfo, devmode, devfile, status, pushed>>
    /\ UNCHANGED notSync

\* the device has DONE: it stores the file and sends its status
DeviceAnswers ==
    /\ sy_pc = "push_wait"
    /\ sy_pc' = "push_status"
    /\ IF devmode = "honest"
       THEN /\ devfile' = DeviceStore(wire[Len(wire)], devfile)
            /\ inbuf' = IF DeviceParse(SentBody(wire[Len(wire)]), <<>>).ok THEN OKAY
                        ELSE FrameFAIL(NoText)
            /\ UNCHANGED frames
       ELSE /\ \E f \in FaultyFrames(SEND) : inbuf' = f /\ frames' = <<f>>
            /\ UNCHANGED devfile
    /\ UNCHANGED <<sy_op, sy_cmd, conns, wire, rdcount, src, total_size, yielded,
                   localfile, statinfo, sy_res, devmode, status, pushed>>
    /\ UNCHANGED notSync

\* push: assert c.read_string(4) == _OKAY; finally r.close(); c.close(); then the
\* check, or return total_size
PushStatus ==
    /\ sy_pc = "push_status"
    /\ LET code == Recv(inbuf, 4)
       IN  /\ inbuf' = From(inbuf, Len(code))
           /\ rdcount' = rdcount + Len(code)
           /\ status' = code
           /\ src' = [src EXCEPT !.open = FALSE]
           /\ conns' = CloseConn(conns, code # OKAY)
           /\ IF code # OKAY
              THEN /\ sy_pc' = "done"
                   /\ sy_res' = Res("raised", "AssertionError", <<>>, <<>>)
                   /\ UNCHANGED <<sy_cmd, pushed>>
              ELSE IF sy_op.check
              THEN /\ sy_pc' = "connect"
                   /\ sy_cmd' = STAT
                   /\ UNCHANGED <<sy_res, pushed>>
              ELSE /\ sy_pc' = "done"
                   /\ sy_res' = Res("returned", "", <<>>, total_size)
                   /\ pushed' = Pushed(src.data)
                   /\ UNCHANGED sy_cmd
    /\ UNCHANGED <<sy_op, wire, frames, total_size, yielded, localfile, statinfo,
                   devmode, devfile>>
    /\ UNCHANGED notSync

\* stat: the with block; inside push the FileInfo goes to the check
StatReply ==
    /\ sy_pc = "stat_reply"
    /\ LET r == StatStep(inbuf, sy_op.dst)
       IN  /\ inbuf' = From(inbuf, r.used)
           /\ rdcount' = rdcount + r.used
           /\ conns' = CloseConn(conns, r.out = "raise")
           /\ IF r.out = "raise"
              THEN /\ sy_pc' = "done"
                   /\ sy_res' = Res("raised", r.error, <<>>, <<>>)
                   /\ UNCHANGED statinfo
              ELSE IF sy_op.kind = "push"
              THEN /\ sy_pc' = "push_check"
                   /\ statinfo' = r.item
                   /\ UNCHANGED sy_res
              ELSE /\ sy_pc' = "done"
                   /\ sy_res' = Res("returned", "", <<>>, r.item)
                   /\ UNCHANGED statinfo
    /\ UNCHANGED <<sy_op, sy_cmd, wire, frames, src, total_size, yielded, localfile,
                   devmode, devfile, status, pushed>>
    /\ UNCHANGED notSync

\* push: if total_size != file_size: raise AdbError; return total_size
PushCheck ==
    /\ sy_pc = "push_check"
    /\ sy_pc' = "done"
    /\ sy_res' = IF SizeMismatch(total_size, statinfo.size)
                 THEN Res("raised", "AdbError", <<>>, <<>>)
                 ELSE Res("returned", "", <<>>, total_size)
    /\ pushed' = IF SizeMismatch(total_size, statinfo.size) THEN pushed
                 ELSE Pushed(src.data)
    /\ UNCHANGED <<sy_op, sy_cmd, conns, wire, inbuf, rdcount, frames, src, total_size,
                   yielded, localfile, statinfo, devmode, devfile, status>>
    /\ UNCHANGED notSync

\* what the operation returns once its generator is exhausted
Exhausted(kind, items, size) ==
    CASE kind = "read_bytes" -> Concat(items)
      [] kind = "pull" -> size
      [] OTHER -> items

\* iter_directory: one round of the loop, up to the yield, the break or the error
ListRead ==
    /\ sy_pc = "list_read"
    /\ LET r == ListStep(inbuf)
       IN  /\ inbuf' = From(inbuf, r.used)
           /\ rdcount' = rdcount + r.used
           /\ CASE r.out = "yield" ->
                     /\ yielded' = Append(yielded, r.item)
                     /\ sy_pc' = "list_yield"
                     /\ UNCHANGED <<conns, sy_res>>
                [] r.out = "stop" ->
                     /\ conns' = CloseConn(conns, FALSE)
                     /\ sy_pc' = "done"
                     /\ sy_res' = Res("returned", "", <<>>, yielded)
                     /\ UNCHANGED yielded
                [] OTHER ->
                     /\ conns' = CloseConn(conns, TRUE)
                     /\ sy_pc' = "done"
                     /\ sy_res' = Res("raised", r.error, <<>>, <<>>)
                     /\ UNCHANGED yielded
    /\ UNCHANGED <<sy_op, sy_cmd, wire, frames, src, total_size, localfile, statinfo,
                   devmode, devfile, status, pushed>>
    /\ UNCHANGED notSync

\* iter_content: one round of the loop.  The consumer takes the chunk: read_bytes
\* and a caller of iter_content collect it, pull writes it and adds its length to size
\* (total_size here).
RecvRead ==
    /\ sy_pc = "recv_read"
    /\ LET r == RecvStep(inbuf)
       IN  /\ inbuf' = From(inbuf, r.used)
           /\ rdcount' = rdcount + r.used
           /\ CASE r.out = "yield" ->
                     /\ IF sy_op.kind = "pull"
                        THEN /\ localfile' = localfile \o r.item
                             /\ total_size' = total_size + Len(r.item)
                             /\ UNCHANGED yielded
                        ELSE /\ yielded' = Append(yielded, r.item)
                             /\ UNCHANGED <<localfile, total_size>>
                     /\ sy_pc' = "recv_yield"
                     /\ UNCHANGED <<conns, sy_res>>
                [] r.out = "stop" ->
                     /\ conns' = CloseConn(conns, FALSE)
                     /\ sy_pc' = "done"
                     /\ sy_res' = Res("returned", "", <<>>,
                                      Exhausted(sy_op.kind, yielded, total_size))
                     /\ UNCHANGED <<yielded, localfile, total_size>>
                [] OTHER ->
                     /\ conns' = CloseConn(conns, TRUE)
                     /\ sy_pc' = "done"
                     /\ sy_res' = Res("raised", r.error, r.msg, <<>>)
                     /\ UNCHANGED <<yielded, localfile, total_size>>
    /\ UNCHANGED <<sy_op, sy_cmd, wire, frames, src, statinfo, devmode, devfile, status, pushed>>
    /\ UNCHANGED notSync

\* the consumer asks the generator for the next item
GenResume ==
    /\ sy_pc \in {"list_yield", "recv_yield"}
    /\ sy_pc' = IF sy_pc = "list_yield" THEN "list_read" ELSE "recv_read"
    /\ UNCHANGED <<sy_op, sy_cmd, conns, wire, inbuf, rdcount, frames, src, total_size,
                   yielded, localfile, statinfo, sy_res, devmode, devfile, status, pushed>>
    /\ UNCHANGED notSync

\* the caller of iter_directory / iter_content closes the generator at a yield:
\* GeneratorExit goes through the with block and _prepare_sync's finally
GenClose ==
    /\ sy_pc \in {"list_yield", "recv_yield"}
    /\ Lazy(sy_op.kind)
    /\ sy_pc' = "done"
    /\ conns' = CloseConn(conns, TRUE)
    /\ sy_res' = Res("closed", "", <<>>, <<>>)
    /\ UNCHANGED <<sy_op, sy_cmd, wire, inbuf, rdcount, frames, src, total_size,
                   yielded, localfile, statinfo, devmode, devfile, status, pushed>>
    /\ UNCHANGED notSync

\* the caller has the result; the Sync object takes the next call
SyncDone ==
    /\ sy_pc = "done"
    /\ sy_pc' = "idle"
    /\ sy_op' = NoOp
    /\ sy_cmd' = <<>>
    /\ conns' = <<>>
    /\ wire' = <<>>
    /\ inbuf' = <<>>
    /\ rdcount' = 0
    /\ frames' = <<>>
    /\ src' = NoSrc
    /\ total_size' = 0
    /\ yielded' = <<>>
    /\ localfile' = <<>>
    /\ statinfo' = NoInfo
    /\ sy_res' = NoRes
    /\ status' = <<>>
    /\ UNCHANGED <<devmode, devfile, pushed>>
    /\ UNCHANGED notSync

SyncNext ==
    \/ \E op \in PlainOps : Call(op, <<>>)
    \/ \E op \in PushOps, data \in Sources : Call(op, data)
    \/ Connect
    \/ ConnectFail
    \/ \E ok \in BOOLEAN : Transport(ok)
    \/ \E ok \in BOOLEAN : SyncSelect(ok)
    \/ \E sent \in BOOLEAN : SendRequest(sent)
    \/ \E n \in ReadLimits(sy_op.srckind) : PushRead(n)
    \/ \E n \in ReadLimits(sy_op.srckind), at \in {"done", "header", "chunk"} :
          PushSendError(n, at)
    \/ DeviceAnswers
    \/ PushStatus
    \/ StatReply
    \/ PushCheck
    \/ ListRead
    \/ RecvRead
    \/ GenResume
    \/ GenClose
    \/ SyncDone

(***************************************************************************)
(* BaseDevice.forward_port and the forward rules of the host server        *)
(***************************************************************************)
\* the calling threads, each with its own call of forward_port
Threads == {"t1", "t2"}

\* forward_port calls that may return in one behaviour
MaxCalls == 3
\* forward calls in one behaviour
MaxForwards == 1
\* the local ports get_free_port may hand out
MaxPorts == 3
FirstPort == 5001
Ports == {FirstPort + i : i \in 0..(MaxPorts - 1)}

\* self._serial, and the serial of another device of the same host
Serial == "S1"
OtherSerial == "S2"

\* "tcp:"
TcpPrefix == <<"t", "c", "p", ":">>
\* "tcp:" + str(n)
TcpSpec(n) == TcpPrefix \o Decimal(n)
\* "local:x", a local endpoint that is not tcp
LocalSpec == <<"l", "o", "c", "a", "l", ":", "x">>

\* str.startswith
StartsWith(s, prefix) == Len(s) >= Len(prefix) /\ SubSeq(s, 1, Len(prefix)) = prefix

\* ForwardItem(serial, local, remote)
ForwardItem(serial, local, remote) == [serial |-> serial, local |-> local, remote |-> remote]

\* the remote argument: an int or a str
IntArg(n) == [int |-> TRUE, n |-> n, text |-> <<>>]
StrArg(text) == [int |-> FALSE, n |-> 0, text |-> text]
NoArg == StrArg(<<>>)
RemoteArgs == {IntArg(7912), StrArg(TcpSpec(7912)), StrArg(TcpSpec(8000))}

\* if isinstance(remote, int): remote = "tcp:" + str(remote)
Normalize(arg) == IF arg.int THEN TcpSpec(arg.n) ELSE arg.text

\* the test without the serial
ReusableAnySerial(f, serial, remote) ==
    f.remote = remote /\ StartsWith(f.local, TcpPrefix)

\* the rule forward_port takes for its own: the test of the for loop
Reusable(f, serial, remote) ==
    f.serial = serial /\ f.remote = remote /\ StartsWith(f.local, TcpPrefix)

\* the for loop over forward_list(): the index of the first rule to reuse, 0 if none
FirstReusable(rules, serial, remote) ==
    LET at == {i \in 1..Len(rules) : Reusable(rules[i], serial, remote)}
    IN  IF at = {} THEN 0 ELSE CHOOSE i \in at : \A j \in at : i <= j

\* host server, forward: the rule (serial, local) is replaced where it is, or added
RECURSIVE IndexOf(_, _, _)
IndexOf(rules, serial, local) ==
    IF rules = <<>> THEN 0
    ELSE IF rules[Len(rules)].serial = serial /\ rules[Len(rules)].local = local
    THEN Len(rules)
    ELSE IndexOf(Upto(rules, Len(rules) - 1), serial, local)
HostForward(rules, serial, local, remote) ==
    LET i == IndexOf(rules, serial, local)
    IN  IF i = 0 THEN Append(rules, ForwardItem(serial, local, remote))
        ELSE [rules EXCEPT ![i] = ForwardItem(serial, local, remote)]

\* the local tcp ports the host server listens on
BoundPorts(rules) ==
    {PyInt(From(rules[i].local, Len(TcpPrefix))).val :
        i \in {j \in 1..Len(rules) : StartsWith(rules[j].local, TcpPrefix)}}
\* get_free_port(): a port nobody is bound to at the moment
FreePorts(rules) == Ports \ BoundPorts(rules)

\* rules that are there before the first call: of another device, with a local
\* endpoint that is not tcp, and one of this device made by an earlier program
OldRules ==
    <<ForwardItem(OtherSerial, TcpSpec(4001), TcpSpec(7912)),
      ForwardItem(Serial, LocalSpec, TcpSpec(7912)),
      ForwardItem(Serial, TcpSpec(4002), TcpSpec(8000))>>
RECURSIVE SubSeqs(_)
SubSeqs(s) ==
    IF s = <<>> THEN {<<>>}
    ELSE LET rest == SubSeqs(Tail(s))
         IN  rest \cup {<<Head(s)>> \o r : r \in rest}

FwdRes(kind, error, port, created) ==
    [kind |-> kind, error |-> error, port |-> port, created |-> created]
NoFwdRes == FwdRes("none", "", 0, FALSE)

\* no forward_port call is running, none has returned
FwdIdle ==
    /\ fw_pc = [t \in Threads |-> "idle"]
    /\ fw_arg = [t \in Threads |-> NoArg]
    /\ fw_remote = [t \in Threads |-> <<>>]
    /\ fw_port = [t \in Threads |-> 0]
    /\ fw_ret = [t \in Threads |-> NoFwdRes]
    /\ fw_hist = <<>>
    /\ fw_fwd = <<>>

FwdInit ==
    /\ FwdIdle
    /\ fw_rules \in SubSeqs(OldRules)

\* forward_port(remote) is called: the isinstance test
FwdCall(t, arg) ==
    /\ fw_pc[t] = "idle"
    /\ Len(fw_hist) + Cardinality({u \in Threads : fw_pc[u] # "idle"}) < MaxCalls
    /\ fw_pc' = [fw_pc EXCEPT ![t] = "list"]
    /\ fw_arg' = [fw_arg EXCEPT ![t] = arg]
    /\ fw_remote' = [fw_remote EXCEPT ![t] = Normalize(arg)]
    /\ UNCHANGED <<fw_rules, fw_port, fw_ret, fw_hist, fw_fwd>>
    /\ UNCHANGED notFwd

\* for f in self.forward_list(): ... return int(f.local[len("tcp:"):])
FwdList(t) ==
    /\ fw_pc[t] = "list"
    /\ LET i == FirstReusable(fw_rules, Serial, fw_remote[t])
           port == IF i = 0 THEN [ok |-> TRUE, val |-> 0]
                   ELSE PyInt(From(fw_rules[i].local, Len(TcpPrefix)))
       IN  IF i = 0
           THEN /\ fw_pc' = [fw_pc EXCEPT ![t] = "alloc"]
                /\ UNCHANGED <<fw_port, fw_ret>>
           ELSE /\ fw_pc' = [fw_pc EXCEPT ![t] = "done"]
                /\ fw_port' = [fw_port EXCEPT ![t] = port.val]
                /\ fw_ret' = [fw_ret EXCEPT ![t] =
                                 IF port.ok THEN FwdRes("returned", "", port.val, FALSE)
                                 ELSE FwdRes("raised", "ValueError", 0, FALSE)]
    /\ UNCHANGED <<fw_rules, fw_arg, fw_remote, fw_hist, fw_fwd>>
    /\ UNCHANGED notFwd

\* local_port = get_free_port()
FwdAlloc(t, port) ==
    /\ fw_pc[t] = "alloc"
    /\ port \in FreePorts(fw_rules)
    /\ fw_pc' = [fw_pc EXCEPT ![t] = "create"]
    /\ fw_port' = [fw_port EXCEPT ![t] = port]
    /\ UNCHANGED <<fw_rules, fw_arg, fw_remote, fw_ret, fw_hist, fw_fwd>>
    /\ UNCHANGED notFwd

\* self._client.forward(self._serial, "tcp:" + str(local_port), remote); return local_port
FwdCreate(t) ==
    /\ fw_pc[t] = "create"
    /\ fw_rules' = HostForward(fw_rules, Serial, TcpSpec(fw_port[t]), fw_remote[t])
    /\ fw_pc' = [fw_pc EXCEPT ![t] = "done"]
    /\ fw_ret' = [fw_ret EXCEPT ![t] = FwdRes("returned", "", fw_port[t], TRUE)]
    /\ UNCHANGED <<fw_arg, fw_remote, fw_port, fw_hist, fw_fwd>>
    /\ UNCHANGED notFwd

\* the caller has the port; the thread may call again
FwdReturn(t) ==
    /\ fw_pc[t] = "done"
    /\ fw_hist' = Append(fw_hist, [thread |-> t, arg |-> fw_arg[t], remote |-> fw_remote[t],
                                   ret |-> fw_ret[t]])
    /\ fw_pc' = [fw_pc EXCEPT ![t] = "idle"]
    /\ fw_arg' = [fw_arg EXCEPT ![t] = NoArg]
    /\ fw_remote' = [fw_remote EXCEPT ![t] = <<>>]
    /\ fw_port' = [fw_port EXCEPT ![t] = 0]
    /\ fw_ret' = [fw_ret EXCEPT ![t] = NoFwdRes]
    /\ UNCHANGED <<fw_rules, fw_fwd>>
    /\ UNCHANGED notFwd

\* the endpoints a caller of forward gives: a local port of its own choice, one that
\* get_free_port may hand out, an endpoint that is not tcp; the remotes of forward_port
ForwardLocals == {TcpSpec(4002), TcpSpec(FirstPort), LocalSpec}
ForwardRemotes == {TcpSpec(7912), TcpSpec(8000)}

\* forward(local, remote), called by a thread that is in no forward_port call:
\* return self._client.forward(self._serial, local, remote)
Forward(t, local, remote) ==
    /\ fw_pc[t] = "idle"
    /\ Len(fw_fwd) < MaxForwards
    /\ fw_rules' = HostForward(fw_rules, Serial, local, remote)
    /\ fw_fwd' = Append(fw_fwd, [at |-> Len(fw_hist), local |-> local, remote |-> remote])
    /\ UNCHANGED <<fw_pc, fw_arg, fw_remote, fw_port, fw_ret, fw_hist>>
    /\ UNCHANGED notFwd

\* the steps of one thread
FwdStep(t) ==
    \/ \E arg \in RemoteArgs : FwdCall(t, arg)
    \/ FwdList(t)
    \/ \E port \in Ports : FwdAlloc(t, port)
    \/ FwdCreate(t)
    \/ FwdReturn(t)
    \/ \E local \in ForwardLocals, remote \in ForwardRemotes : Forward(t, local, remote)

\* forward_port called by one thread, call after call
FwdSeqNext == FwdStep("t1")

\* forward_port called by the threads side by side
FwdNext == \E t \in Threads : FwdStep(t)

(***************************************************************************)
(* AdbDevice.install and install_remote                                    *)
(*                                                                         *)
(* The output of a device command is a text.  The device                   *)
(* holds two files: "tmp", the path the apk is pushed to, and "new", the   *)
(* path <package>-<version>.apk it is renamed to.                          *)
(***************************************************************************)
\* the largest apk, in bytes
MaxApkSize == 1
\* no file at a path
NoFile == -1
Sizes == 0..MaxApkSize
Files(tmp, new) == [tmp |-> tmp, new |-> new]
Remove(files, path) == [files EXCEPT ![path] = NoFile]

\* a command the device was given, and the path it was given for
Ev(cmd, path) == [cmd |-> cmd, path |-> path]

\* The output of a device command is a text: the sequence of its characters.
\* What `pm install` prints: the reasons of a failure
PermissionModelDowngrade ==
    <<"I", "N", "S", "T", "A", "L", "L", "_", "F", "A", "I", "L", "E", "D", "_", "P",
      "E", "R", "M", "I", "S", "S", "I", "O", "N", "_", "M", "O", "D", "E", "L", "_",
      "D", "O", "W", "N", "G", "R", "A", "D", "E">>
UpdateIncompatible ==
    <<"I", "N", "S", "T", "A", "L", "L", "_", "F", "A", "I", "L", "E", "D", "_", "U",
      "P", "D", "A", "T", "E", "_", "I", "N", "C", "O", "M", "P", "A", "T", "I", "B",
      "L", "E">>
VersionDowngrade ==
    <<"I", "N", "S", "T", "A", "L", "L", "_", "F", "A", "I", "L", "E", "D", "_", "V",
      "E", "R", "S", "I", "O", "N", "_", "D", "O", "W", "N", "G", "R", "A", "D", "E">>
CancelledReason ==
    <<"I", "N", "S", "T", "A", "L", "L", "_", "F", "A", "I", "L", "E", "D", "_", "C",
      "A", "N", "C", "E", "L", "L", "E", "D", "_", "B", "Y", "_", "U", "S", "E", "R">>
AlreadyExists ==
    <<"I", "N", "S", "T", "A", "L", "L", "_", "F", "A", "I", "L", "E", "D", "_", "A",
      "L", "R", "E", "A", "D", "Y", "_", "E", "X", "I", "S", "T", "S">>
UninstallReasons == {PermissionModelDowngrade, UpdateIncompatible, VersionDowngrade}

\* "Success", "Failure [", "Unknown", "Error: closed"
SuccessText ==
    <<"S", "u", "c", "c", "e", "s", "s">>
FailureOpen ==
    <<"F", "a", "i", "l", "u", "r", "e", " ", "[">>
Unknown ==
    <<"U", "n", "k", "n", "o", "w", "n">>
ErrorClosed ==
    <<"E", "r", "r", "o", "r", ":", " ", "c", "l", "o", "s", "e", "d">>
\* the line an installer prints before its verdict, for a package file whose name
\* has the word Success in it
PkgLine ==
    <<"p", "k", "g", ":", " ", "/", "d", "a", "t", "a", "/", "l", "o", "c", "a", "l",
      "/", "t", "m", "p", "/", "S", "u", "c", "c", "e", "s", "s", "-", "1", ".", "a",
      "p", "k", "\n">>

\* the verdict of an installer that failed
Failure(reason) == FailureOpen \o reason \o <<"]">>
\* the failures printed after the line of the package file
MaskedFailures == {PkgLine \o Failure(r) : r \in {VersionDowngrade, CancelledReason, AlreadyExists}}
InstallerOutputs ==
    {SuccessText, ErrorClosed, Failure(AlreadyExists), Failure(CancelledReason)}
    \cup {Failure(r) : r \in UninstallReasons}
    \cup MaskedFailures

\* "Success" in output: the text occurs somewhere in the output
HasSuccess(output) == Find(output, SuccessText) # -1

\* \w of a regular expression, for the characters of these texts
WordChars ==
    {"A", "B", "C", "D", "E", "F", "G", "H", "I", "J", "K", "L", "M",
     "N", "O", "P", "Q", "R", "S", "T", "U", "V", "W", "X", "Y", "Z",
     "a", "b", "c", "d", "e", "f", "g", "h", "i", "j", "k", "l", "m",
     "n", "o", "p", "q", "r", "s", "t", "u", "v", "w", "x", "y", "z",
     "0", "1", "2", "3", "4", "5", "6", "7", "8", "9", "_"}
\* the longest run of word characters at the start of a text
RECURSIVE WordRun(_)
WordRun(text) ==
    IF text = <<>> \/ text[1] \notin WordChars THEN <<>>
    ELSE <<text[1]>> \o WordRun(Tail(text))

\* AdbInstallError(output).reason: the group of the first match of
\* "Failure \[([\w_]+)" in the output, "Unknown" without a match
Reason(output) ==
    LET at == {i \in 0..Len(output) :
                  /\ Occurs(output, FailureOpen, i)
                  /\ WordRun(From(output, i + Len(FailureOpen))) # <<>>}
    IN  IF at = {} THEN Unknown
        ELSE WordRun(From(output, (CHOOSE i \in at : \A j \in at : i <= j)
                                      + Len(FailureOpen)))

\* an exception in flight, or none
Exc(error, reason, output) == [error |-> error, reason |-> reason, output |-> output]
NoExc == Exc("", <<>>, <<>>)
AdbInstallError(output) == Exc("AdbInstallError", Reason(output), output)
BrokenPipe == Exc("BrokenPipeError", <<>>, <<>>)

\* where the connection of install_remote breaks: at neither of its two commands, at
\* self.shell(["pm", "install", ...]) or at self.shell(["rm", remote_path])
RemoteFaults == {"none", "install", "rm"}

\* install_remote(remote_path, clean) with the installer printing `output` and the
\* connection breaking at `fault`: the exception it raises, the commands the device
\* has run, the outputs read, the files after it
InstallRemote(path, clean, output, files, fault) ==
    IF fault = "install"
    THEN [exc |-> BrokenPipe, events |-> <<>>, outs |-> <<>>, files |-> files]
    ELSE IF ~HasSuccess(output)
    THEN [exc |-> AdbInstallError(output), events |-> <<Ev("pm install", path)>>,
          outs |-> <<output>>, files |-> files]
    ELSE IF ~clean
    THEN [exc |-> NoExc, events |-> <<Ev("pm install", path)>>, outs |-> <<output>>,
          files |-> files]
    ELSE IF fault = "rm"
    THEN [exc |-> BrokenPipe, events |-> <<Ev("pm install", path)>>, outs |-> <<output>>,
          files |-> files]
    ELSE [exc |-> NoExc, events |-> <<Ev("pm install", path), Ev("rm", path)>>,
          outs |-> <<output>>, files |-> Remove(files, path)]

\* the runs of install_remote that differ: the output matters when pm install has run,
\* a break at rm when rm is run
RemoteRuns(clean) ==
    {run \in [output : InstallerOutputs, fault : RemoteFaults] :
        /\ run.fault = "install" => run.output = SuccessText
        /\ run.fault = "rm" => clean /\ HasSuccess(run.output)}

\* app_start(package_name, activity)
AppStart(activity) == IF activity THEN Ev("am start", "") ELSE Ev("monkey", "")

\* the except clause of install: what it does with the reason
Handle(reason) ==
    IF reason \in UninstallReasons THEN "uninstall"
    ELSE IF reason = CancelledReason THEN "reinstall"
    ELSE "raise"

\* assert info.size == r.copied
SizeVerified(size, copied) == size = copied

\* @retry(BrokenPipeError, delay=5.0, jitter=[3, 5], tries=3)
Tries == 3
Delay == 5
Jitter == [kind |-> "list", lo |-> 3, hi |-> 5]
\* the exceptions the decorator retries on
RetriesOn(error) == error = "BrokenPipeError"
\* retry: `if isinstance(jitter, tuple): _delay += random.uniform(*jitter)
\* else: _delay += jitter`; a list added to a float is a TypeError
JitterAdds(jitter) == jitter.kind \in {"tuple", "number"}

\* the arguments of a call
InsArgs(kind, nolaunch, uninstall, activity, size, valid, clean, callback) ==
    [kind |-> kind, nolaunch |-> nolaunch, uninstall |-> uninstall, activity |-> activity,
     size |-> size, valid |-> valid, clean |-> clean, callback |-> callback]
NoInsArgs == InsArgs("none", FALSE, FALSE, FALSE, 0, FALSE, FALSE, FALSE)
\* install(path): the apk has `size` bytes and, if valid, a manifest; an empty file has none
InstallArgs ==
    {a \in {InsArgs("install", nl, un, act, size, valid, TRUE, cb) :
                nl \in BOOLEAN, un \in BOOLEAN, act \in BOOLEAN, size \in Sizes,
                valid \in BOOLEAN, cb \in BOOLEAN} : a.size > 0 \/ ~a.valid}
\* install_remote(remote_path, clean)
InstallRemoteArgs ==
    {InsArgs("install_remote", FALSE, FALSE, FALSE, 0, FALSE, clean, FALSE) : clean \in BOOLEAN}

InsRes(kind, exc) == [kind |-> kind, exc |-> exc]
NoInsRes == InsRes("none", NoExc)

\* no install call is running
\* the try block and the callback
insCb == <<ins_try, ins_cb>>

\* a finally clause that covers the whole body
FinallyAlways(cb, in_try, callback, at) ==
    IF callback THEN Append(cb, [event |-> "FINALLY", at |-> at]) ELSE cb

\* finally: if callback: callback("FINALLY"), the clause of the try block around the
\* installer run
Finally(cb, in_try, callback, at) ==
    IF in_try /\ callback THEN Append(cb, [event |-> "FINALLY", at |-> at]) ELSE cb

InsIdle ==
    /\ ins_pc = "idle"
    /\ ins_args = NoInsArgs
    /\ ins_tries = 0
    /\ ins_attempts = 0
    /\ ins_log = <<>>
    /\ ins_outs = <<>>
    /\ ins_err = NoExc
    /\ ins_res = NoInsRes
    /\ ins_copied = 0
    /\ ins_info = NoFile
    /\ ins_mv = "none"
    /\ ins_try = FALSE
    /\ ins_cb = <<>>

\* the device has no file at either path
InsNoFiles ==
    /\ ins_files = Files(NoFile, NoFile)
    /\ ins_files0 = Files(NoFile, NoFile)

\* before the first call a file of an earlier install may be at the path "new"
InsInit ==
    /\ InsIdle
    /\ ins_files \in {Files(NoFile, new) : new \in Sizes \cup {NoFile}}
    /\ ins_files0 = ins_files

\* the variables of the call that a step of the body leaves alone unless it says so
insCall == <<ins_args, ins_tries, ins_attempts, ins_files0, ins_res>>

\* install(...) is called: the decorator takes over
InstallCall(args) ==
    /\ ins_pc = "idle"
    /\ ins_pc' = "body"
    /\ ins_args' = args
    /\ ins_tries' = Tries
    /\ ins_files0' = ins_files
    /\ UNCHANGED <<ins_attempts, ins_log, ins_outs, ins_err, ins_res, ins_copied, ins_info,
                   ins_mv, ins_files>>
    /\ UNCHANGED insCb
    /\ UNCHANGED notIns

\* the decorator calls the body: the source is opened, r = ReadProgress(fd, length)
BodyStart ==
    /\ ins_pc = "body"
    /\ ins_pc' = "push"
    /\ ins_attempts' = ins_attempts + 1
    /\ ins_err' = NoExc
    /\ ins_copied' = 0
    /\ ins_info' = NoFile
    /\ ins_mv' = "none"
    /\ UNCHANGED <<ins_args, ins_tries, ins_files0, ins_res, ins_log, ins_outs, ins_files>>
    /\ UNCHANGED insCb
    /\ UNCHANGED notIns

\* how self.sync.push(r, dst) ends: it returns, a send raises BrokenPipeError, the
\* handshake raises AdbError, the status of the device is not OKAY (the assert of
\* push)
PushOutcomes == {"ok", "pipe", "error", "assert"}

\* self.sync.push(r, dst): the device has `stored` bytes of it, or the push raises
\* with `copied` bytes read from r: none when it raises before the loop, all of the
\* file (which one read(4096) gives) when it raises in the loop or after it
Push(outcome, stored, copied) ==
    /\ ins_pc = "push"
    /\ stored \in {ins_args.size} \cup ({ins_args.size - 1} \cap Sizes)
    /\ copied \in {0, ins_args.size}
    /\ ins_copied' = copied
    /\ CASE outcome = "ok" ->
              /\ copied = ins_args.size
              /\ ins_pc' = "parse"
              /\ ins_log' = Append(ins_log, Ev("push", "tmp"))
              /\ ins_files' = [ins_files EXCEPT !.tmp = stored]
              /\ UNCHANGED ins_err
         [] outcome = "pipe" ->
              /\ stored = ins_args.size
              /\ ins_pc' = "exit"
              /\ ins_err' = BrokenPipe
              /\ UNCHANGED <<ins_log, ins_files>>
         [] outcome = "assert" ->
              /\ stored = ins_args.size
              /\ copied = ins_args.size
              /\ ins_pc' = "exit"
              /\ ins_err' = Exc("AssertionError", <<>>, <<>>)
              /\ UNCHANGED <<ins_log, ins_files>>
         [] OTHER ->
              /\ stored = ins_args.size
              /\ copied = 0
              /\ ins_pc' = "exit"
              /\ ins_err' = Exc("AdbError", <<>>, <<>>)
              /\ UNCHANGED <<ins_log, ins_files>>
    /\ UNCHANGED <<insCall, ins_outs, ins_info, ins_mv>>
    /\ UNCHANGED insCb
    /\ UNCHANGED notIns

\* apk = apkutils2.APK(r.filepath()); package_name, main_activity, version_name
Parse ==
    /\ ins_pc = "parse"
    /\ IF ins_args.valid
       THEN ins_pc' = "rename" /\ UNCHANGED ins_err
       ELSE ins_pc' = "exit" /\ ins_err' = Exc("BadZipFile", <<>>, <<>>)
    /\ UNCHANGED <<insCall, ins_log, ins_outs, ins_copied, ins_info, ins_mv, ins_files>>
    /\ UNCHANGED insCb
    /\ UNCHANGED notIns

\* self.shell(["mv", dst, new_dst]); dst = new_dst.  What mv prints is not looked at.
Rename(ok, fault) ==
    /\ ins_pc = "rename"
    /\ IF fault
       THEN /\ ok
            /\ ins_pc' = "exit"
            /\ ins_err' = BrokenPipe
            /\ UNCHANGED <<ins_log, ins_mv, ins_files>>
       ELSE /\ ins_pc' = "stat"
            /\ ins_log' = Append(ins_log, Ev("mv", "tmp"))
            /\ ins_mv' = IF ok THEN "ok" ELSE "failed"
            /\ ins_files' = IF ok THEN Files(NoFile, ins_files.tmp) ELSE ins_files
            /\ UNCHANGED ins_err
    /\ UNCHANGED <<insCall, ins_outs, ins_copied, ins_info>>
    /\ UNCHANGED insCb
    /\ UNCHANGED notIns

\* what self.sync.stat(dst) raises: BrokenPipeError (a send), AdbError (the
\* handshake), AssertionError (the answer does not begin with STAT, line 286),
\* struct.error (the answer has fewer than 16 bytes, line 287)
StatErrors == {"BrokenPipeError", "AdbError", "AssertionError", "struct.error"}
\* how self.sync.stat(dst) ends: it returns the FileInfo, or raises
StatOutcomes == {"ok"} \cup StatErrors

\* info = self.sync.stat(dst); assert info.size == r.copied
StatVerify(outcome) ==
    /\ ins_pc = "stat"
    /\ IF outcome # "ok"
       THEN /\ ins_pc' = "exit"
            /\ ins_err' = Exc(outcome, <<>>, <<>>)
            /\ UNCHANGED <<ins_info, ins_log>>
       ELSE LET size == IF ins_files.new = NoFile THEN 0 ELSE ins_files.new
            IN  /\ ins_info' = size
                /\ ins_log' = Append(ins_log, Ev("stat", "new"))
                /\ IF SizeVerified(size, ins_copied)
                   THEN /\ ins_pc' = IF ins_args.uninstall THEN "uninstall_first"
                                     ELSE "install"
                        /\ UNCHANGED ins_err
                   ELSE /\ ins_pc' = "exit"
                        /\ ins_err' = Exc("AssertionError", <<>>, <<>>)
    /\ UNCHANGED <<insCall, ins_outs, ins_copied, ins_mv, ins_files>>
    /\ UNCHANGED insCb
    /\ UNCHANGED notIns

\* if uninstall: self.uninstall(package_name)
UninstallFirst(fault) ==
    /\ ins_pc = "uninstall_first"
    /\ IF fault
       THEN /\ ins_pc' = "exit"
            /\ ins_err' = BrokenPipe
            /\ UNCHANGED ins_log
       ELSE /\ ins_pc' = "install"
            /\ ins_log' = Append(ins_log, Ev("uninstall", ""))
            /\ UNCHANGED ins_err
    /\ UNCHANGED <<insCall, ins_outs, ins_copied, ins_info, ins_mv, ins_files>>
    /\ UNCHANGED insCb
    /\ UNCHANGED notIns

\* try: if callback: callback("BEFORE_INSTALL"); self.install_remote(dst, clean=True)
InstallRun(output, fault) ==
    /\ ins_pc = "install"
    /\ ins_try' = TRUE
    /\ ins_cb' = IF ins_args.callback
                 THEN Append(ins_cb, [event |-> "BEFORE_INSTALL", at |-> Len(ins_log)])
                 ELSE ins_cb
    /\ LET r == InstallRemote("new", TRUE, output, ins_files, fault)
       IN  /\ ins_log' = ins_log \o r.events
           /\ ins_outs' = ins_outs \o r.outs
           /\ ins_files' = r.files
           /\ IF r.exc = NoExc
              THEN /\ ins_pc' = IF ins_args.nolaunch THEN "exit" ELSE "launch"
                   /\ UNCHANGED ins_err
              ELSE /\ ins_pc' = IF r.exc.error = "AdbInstallError" THEN "handler" ELSE "exit"
                   /\ ins_err' = r.exc
    /\ UNCHANGED <<insCall, ins_copied, ins_info, ins_mv>>
    /\ UNCHANGED notIns

\* if not nolaunch: self.app_start(package_name, main_activity)
Launch(fault) ==
    /\ ins_pc = "launch"
    /\ ins_pc' = "exit"
    /\ IF fault
       THEN ins_err' = BrokenPipe /\ UNCHANGED ins_log
       ELSE ins_log' = Append(ins_log, AppStart(ins_args.activity)) /\ UNCHANGED ins_err
    /\ UNCHANGED <<insCall, ins_outs, ins_copied, ins_info, ins_mv, ins_files>>
    /\ UNCHANGED insCb
    /\ UNCHANGED notIns

\* except AdbInstallError as e: the branch taken for e.reason
Handler ==
    /\ ins_pc = "handler"
    /\ ins_pc' = CASE Handle(ins_err.reason) = "uninstall" -> "h_uninstall"
                   [] Handle(ins_err.reason) = "reinstall" -> "c_install"
                   [] OTHER -> "exit"
    /\ UNCHANGED <<insCall, ins_log, ins_outs, ins_err, ins_copied, ins_info, ins_mv, ins_files>>
    /\ UNCHANGED insCb
    /\ UNCHANGED notIns

\* self.uninstall(package_name), in the except clause
HandlerUninstall(fault) ==
    /\ ins_pc = "h_uninstall"
    /\ IF fault
       THEN /\ ins_pc' = "exit"
            /\ ins_err' = BrokenPipe
            /\ UNCHANGED ins_log
       ELSE /\ ins_pc' = "h_install"
            /\ ins_log' = Append(ins_log, Ev("uninstall", ""))
            /\ UNCHANGED ins_err
    /\ UNCHANGED <<insCall, ins_outs, ins_copied, ins_info, ins_mv, ins_files>>
    /\ UNCHANGED insCb
    /\ UNCHANGED notIns

\* self.install_remote(dst, clean=True), in the except clause: after the uninstall
\* (then the launch follows) or for INSTALL_FAILED_CANCELLED_BY_USER (then nothing)
HandlerInstall(output, fault) ==
    /\ ins_pc \in {"h_install", "c_install"}
    /\ LET r == InstallRemote("new", TRUE, output, ins_files, fault)
       IN  /\ ins_log' = ins_log \o r.events
           /\ ins_outs' = ins_outs \o r.outs
           /\ ins_files' = r.files
           /\ ins_err' = r.exc
           /\ ins_pc' = IF r.exc = NoExc /\ ins_pc = "h_install" /\ ~ins_args.nolaunch
                         THEN "launch" ELSE "exit"
    /\ UNCHANGED <<insCall, ins_copied, ins_info, ins_mv>>
    /\ UNCHANGED insCb
    /\ UNCHANGED notIns

\* the body is left, by return or by an exception: the finally clause of the try
\* block when the body was in it (if callback: callback("FINALLY")), then the retry
\* decorator.
\*   while _tries: try: return f()
\*   except exceptions: _tries -= 1; if not _tries: raise; sleep; _delay += jitter
Exit ==
    /\ ins_pc = "exit"
    /\ ins_try' = FALSE
    /\ ins_cb' = Finally(ins_cb, ins_try, ins_args.callback, Len(ins_log))
    /\ IF ins_err = NoExc
       THEN /\ ins_pc' = "done"
            /\ ins_res' = InsRes("returned", NoExc)
            /\ UNCHANGED ins_tries
       ELSE IF ~RetriesOn(ins_err.error)
       THEN /\ ins_pc' = "done"
            /\ ins_res' = InsRes("raised", ins_err)
            /\ UNCHANGED ins_tries
       ELSE /\ ins_tries' = ins_tries - 1
            /\ IF ins_tries - 1 = 0
               THEN ins_pc' = "done" /\ ins_res' = InsRes("raised", ins_err)
               ELSE IF JitterAdds(Jitter)
               THEN ins_pc' = "body" /\ UNCHANGED ins_res
               ELSE ins_pc' = "done" /\ ins_res' = InsRes("raised", Exc("TypeError", <<>>, <<>>))
    /\ UNCHANGED <<ins_args, ins_attempts, ins_files0, ins_log, ins_outs, ins_err,
                   ins_copied, ins_info, ins_mv, ins_files>>
    /\ UNCHANGED notIns

\* install_remote(remote_path, clean) called by itself
InstallRemoteCall(args) ==
    /\ ins_pc = "idle"
    /\ ins_files.new # NoFile
    /\ ins_pc' = "remote"
    /\ ins_args' = args
    /\ ins_files0' = ins_files
    /\ UNCHANGED <<ins_tries, ins_attempts, ins_log, ins_outs, ins_err, ins_res, ins_copied,
                   ins_info, ins_mv, ins_files>>
    /\ UNCHANGED insCb
    /\ UNCHANGED notIns

\* the run of install_remote: its two commands, and what the caller gets
RemoteRun(output, fault) ==
    /\ ins_pc = "remote"
    /\ LET r == InstallRemote("new", ins_args.clean, output, ins_files, fault)
       IN  /\ ins_log' = ins_log \o r.events
           /\ ins_outs' = ins_outs \o r.outs
           /\ ins_files' = r.files
           /\ ins_pc' = "done"
           /\ ins_err' = r.exc
           /\ ins_res' = InsRes(IF r.exc = NoExc THEN "returned" ELSE "raised", r.exc)
    /\ UNCHANGED <<ins_args, ins_tries, ins_attempts, ins_files0, ins_copied, ins_info, ins_mv>>
    /\ UNCHANGED insCb
    /\ UNCHANGED notIns

\* the caller has the result; the device keeps its files
InsDone ==
    /\ ins_pc = "done"
    /\ ins_pc' = "idle"
    /\ ins_args' = NoInsArgs
    /\ ins_tries' = 0
    /\ ins_attempts' = 0
    /\ ins_log' = <<>>
    /\ ins_outs' = <<>>
    /\ ins_err' = NoExc
    /\ ins_res' = NoInsRes
    /\ ins_copied' = 0
    /\ ins_info' = NoFile
    /\ ins_mv' = "none"
    /\ ins_files0' = ins_files
    /\ UNCHANGED ins_files
    /\ ins_try' = FALSE
    /\ ins_cb' = <<>>
    /\ UNCHANGED notIns

InsNext ==
    \/ \E args \in InstallArgs : InstallCall(args)
    \/ BodyStart
    \/ \E outcome \in PushOutcomes, stored \in Sizes, copied \in Sizes :
          Push(outcome, stored, copied)
    \/ Parse
    \/ \E ok \in BOOLEAN, fault \in BOOLEAN : Rename(ok, fault)
    \/ \E outcome \in StatOutcomes : StatVerify(outcome)
    \/ \E fault \in BOOLEAN : UninstallFirst(fault)
    \/ \E run \in RemoteRuns(TRUE) : InstallRun(run.output, run.fault)
    \/ \E fault \in BOOLEAN : Launch(fault)
    \/ Handler
    \/ \E fault \in BOOLEAN : HandlerUninstall(fault)
    \/ \E run \in RemoteRuns(TRUE) : HandlerInstall(run.output, run.fault)
    \/ Exit
    \/ \E args \in InstallRemoteArgs : InstallRemoteCall(args)
    \/ \E run \in RemoteRuns(ins_args.clean) : RemoteRun(run.output, run.fault)
    \/ InsDone

(***************************************************************************)
(* Two install workflows on one device: the steps of install that touch    *)
(* the staging files, for calls that run at the same time                  *)
(***************************************************************************)
Workflows == {"w1", "w2"}
Packages == {"p", "q"}

\* dst = "/data/local/tmp/tmp-%d.apk" % (int(time.time() * 1000))
TmpPath(ms) == [dir |-> "/data/local/tmp", name |-> "tmp", ms |-> ms, pkg |-> ""]
\* new_dst = "/data/local/tmp/{}-{}.apk".format(package_name, version_name)
NewPath(pkg) == [dir |-> "/data/local/tmp", name |-> "apk", ms |-> 0, pkg |-> pkg]
Paths == {TmpPath(ms) : ms \in 0..MaxClock} \cup {NewPath(pkg) : pkg \in Packages}

NoApk == [owner |-> "", size |-> 0]
Workflow(pc, pkg, size, dst, got) ==
    [pc |-> pc, pkg |-> pkg, size |-> size, dst |-> dst, got |-> got]

\* no workflow runs; the device has no file at any of the paths
PairInit ==
    /\ ci_wf = [w \in Workflows |-> Workflow("idle", "", 0, TmpPath(0), "")]
    /\ ci_files = [p \in Paths |-> NoApk]
    /\ ci_clock = 0

\* install(path) is called: the apk of package pkg, of `size` bytes; dst is set
PairStart(w, pkg, size) ==
    /\ ci_wf[w].pc = "idle"
    /\ ci_wf' = [ci_wf EXCEPT ![w] = Workflow("push", pkg, size, TmpPath(ci_clock), "")]
    /\ UNCHANGED <<ci_files, ci_clock>>
    /\ UNCHANGED notPair

\* self.sync.push(r, dst)
PairPush(w) ==
    /\ ci_wf[w].pc = "push"
    /\ ci_files' = [ci_files EXCEPT ![ci_wf[w].dst] = [owner |-> w, size |-> ci_wf[w].size]]
    /\ ci_wf' = [ci_wf EXCEPT ![w].pc = "rename"]
    /\ UNCHANGED ci_clock
    /\ UNCHANGED notPair

\* self.shell(["mv", dst, new_dst]); dst = new_dst.  mv fails when dst is gone.
PairRename(w) ==
    /\ ci_wf[w].pc = "rename"
    /\ LET dst == ci_wf[w].dst
           new == NewPath(ci_wf[w].pkg)
       IN  /\ ci_files' = IF ci_files[dst] = NoApk THEN ci_files
                          ELSE [ci_files EXCEPT ![new] = ci_files[dst], ![dst] = NoApk]
           /\ ci_wf' = [ci_wf EXCEPT ![w].pc = "verify", ![w].dst = new]
    /\ UNCHANGED ci_clock
    /\ UNCHANGED notPair

\* info = self.sync.stat(dst); assert info.size == r.copied
PairVerify(w) ==
    /\ ci_wf[w].pc = "verify"
    /\ ci_wf' = [ci_wf EXCEPT ![w].pc =
                     IF SizeVerified(ci_files[ci_wf[w].dst].size, ci_wf[w].size)
                     THEN "install" ELSE "failed"]
    /\ UNCHANGED <<ci_files, ci_clock>>
    /\ UNCHANGED notPair

\* self.install_remote(dst, clean=True), its first command: pm install of the file
\* at dst, which fails when there is none
PairInstall(w) ==
    /\ ci_wf[w].pc = "install"
    /\ LET dst == ci_wf[w].dst
       IN  ci_wf' = IF ci_files[dst] = NoApk
                    THEN [ci_wf EXCEPT ![w].pc = "failed"]
                    ELSE [ci_wf EXCEPT ![w].pc = "clean", ![w].got = ci_files[dst].owner]
    /\ UNCHANGED <<ci_files, ci_clock>>
    /\ UNCHANGED notPair

\* install_remote, its second command: self.shell(["rm", dst]), whatever is at dst
PairClean(w) ==
    /\ ci_wf[w].pc = "clean"
    /\ ci_files' = [ci_files EXCEPT ![ci_wf[w].dst] = NoApk]
    /\ ci_wf' = [ci_wf EXCEPT ![w].pc = "done"]
    /\ UNCHANGED ci_clock
    /\ UNCHANGED notPair

\* a millisecond goes by
PairTick ==
    /\ ci_clock < MaxClock
    /\ ci_clock' = ci_clock + 1
    /\ UNCHANGED <<ci_wf, ci_files>>
    /\ UNCHANGED notPair

PairNext ==
    \/ \E w \in Workflows, pkg \in Packages, size \in Sizes \ {0} : PairStart(w, pkg, size)
    \/ \E w \in Workflows : PairPush(w)
    \/ \E w \in Workflows : PairRename(w)
    \/ \E w \in Workflows : PairVerify(w)
    \/ \E w \in Workflows : PairInstall(w)
    \/ \E w \in Workflows : PairClean(w)
    \/ PairTick

(***************************************************************************)
(* _ScreenRecord: start, stop / close, stop_and_pull / close_and_pull.     *)
(* The calls on one recorder come one after the other.                     *)
(***************************************************************************)
\* something done to the device: shell(stream=True) ("open"), send of ETX, read
\* until close ("drain"), close of the stream, sync.pull, rm; ok is FALSE when it raised
Done(op, stream, ok) == [op |-> op, stream |-> stream, ok |-> ok]
\* the streaming sessions opened so far
Opened(log) == {i \in 1..Len(log) : log[i].op = "open" /\ log[i].ok}

\* the fields of the recorder, what the call did, how it ended
Rec(started, stopped, stream) == [started |-> started, stopped |-> stopped, stream |-> stream]
Outcome(r, did, res) == [rec |-> r, did |-> did, res |-> res]

\* start that does not look at _started
StartAgain(r, log, fault) ==
    IF fault THEN Outcome(r, <<Done("open", 0, FALSE)>>, "BrokenPipeError")
    ELSE LET sid == Cardinality(Opened(log)) + 1
         IN  Outcome(Rec(TRUE, r.stopped, sid), <<Done("open", sid, TRUE)>>, "returned")

\* _ScreenRecord.start
Start(r, log, fault) ==
    IF r.started THEN Outcome(r, <<>>, "warned")
    ELSE IF fault THEN Outcome(r, <<Done("open", 0, FALSE)>>, "BrokenPipeError")
    ELSE LET sid == Cardinality(Opened(log)) + 1
         IN  Outcome(Rec(TRUE, r.stopped, sid), <<Done("open", sid, TRUE)>>, "returned")

\* stop that does not look at _stopped
StopAgain(r, fails) ==
    IF ~r.started THEN Outcome(r, <<>>, "RuntimeError")
    ELSE Outcome(Rec(r.started, TRUE, r.stream),
                 <<Done("send", r.stream, TRUE), Done("drain", r.stream, TRUE),
                   Done("close", r.stream, TRUE)>>, "returned")

\* _ScreenRecord.stop; `fails` names the step that raises: "send", "drain" or "none"
Stop(r, fails) ==
    IF ~r.started THEN Outcome(r, <<>>, "RuntimeError")
    ELSE IF r.stopped THEN Outcome(r, <<>>, "returned")
    ELSE IF fails = "send"
    THEN Outcome(r, <<Done("send", r.stream, FALSE)>>, "BrokenPipeError")
    ELSE IF fails = "drain"
    THEN Outcome(r, <<Done("send", r.stream, TRUE), Done("drain", r.stream, FALSE)>>,
                 "ConnectionError")
    ELSE Outcome(Rec(r.started, TRUE, r.stream),
                 <<Done("send", r.stream, TRUE), Done("drain", r.stream, TRUE),
                   Done("close", r.stream, TRUE)>>, "returned")

\* what self._d.sync.pull(src, dst) raises: AdbError (the handshake, FAIL, an
\* unknown code), RuntimeError (a DATA chunk shorter than its length, line 367),
\* struct.error (a length of fewer than 4 bytes, lines 358 and 364),
\* BrokenPipeError (the connection)
PullErrors == {"AdbError", "RuntimeError", "struct.error", "BrokenPipeError"}
\* how the pull ends: it returns, or raises
PullOutcomes == {"ok"} \cup PullErrors

\* stop_and_pull that removes the remote file whatever became of the pull
StopAndPullAlwaysRemoves(r, fails, pull, rm_ok) ==
    LET s == Stop(r, fails)
    IN  Outcome(s.rec, s.did \o <<Done("pull", 0, pull = "ok"), Done("rm", 0, rm_ok)>>,
                IF s.res # "returned" THEN s.res ELSE IF pull = "ok" THEN "returned" ELSE pull)

\* _ScreenRecord.stop_and_pull: self.stop(); self._d.sync.pull(...); self._d.remove(...)
StopAndPull(r, fails, pull, rm_ok) ==
    LET s == Stop(r, fails)
    IN  IF s.res # "returned" THEN s
        ELSE IF pull # "ok" THEN Outcome(s.rec, s.did \o <<Done("pull", 0, FALSE)>>, pull)
        ELSE IF ~rm_ok
        THEN Outcome(s.rec, s.did \o <<Done("pull", 0, TRUE), Done("rm", 0, FALSE)>>,
                     "BrokenPipeError")
        ELSE Outcome(s.rec, s.did \o <<Done("pull", 0, TRUE), Done("rm", 0, TRUE)>>,
                     "returned")

\* the remote video is on the device: nothing has removed it
VideoThere(log) == \A i \in 1..Len(log) : ~(log[i].op = "rm" /\ log[i].ok)

\* no recorder has been made
RecIdle ==
    /\ rec = Rec(FALSE, FALSE, 0)
    /\ rec_log = <<>>
    /\ rec_calls = <<>>
    /\ rec_res = "returned"

\* __init__(d, remote_path, autostart): the fields, then start() if autostart
RecInit ==
    /\ \E autostart \in BOOLEAN :
          LET o == IF autostart THEN Start(Rec(FALSE, FALSE, 0), <<>>, FALSE)
                   ELSE Outcome(Rec(FALSE, FALSE, 0), <<>>, "returned")
          IN  rec = o.rec /\ rec_log = o.did
    /\ rec_calls = <<>>
    /\ rec_res = "returned"

\* a call has run: its outcome
RecAfter(name, o) ==
    /\ Len(rec_calls) < MaxRecCalls
    /\ rec_calls' = Append(rec_calls, name)
    /\ rec' = o.rec
    /\ rec_log' = rec_log \o o.did
    /\ rec_res' = o.res
    /\ UNCHANGED notRec

RecStart(fault) == RecAfter("start", Start(rec, rec_log, fault))

\* stop(), and close(), its alias
RecStop(name, fails) == RecAfter(name, Stop(rec, fails))

\* stop_and_pull(path), and close_and_pull(path), its alias; the pull of a video
\* that is gone fails
RecStopAndPull(name, fails, pull, rm_ok) ==
    /\ pull = "ok" => VideoThere(rec_log)
    /\ RecAfter(name, StopAndPull(rec, fails, pull, rm_ok))

RecNext ==
    \/ \E fault \in BOOLEAN : RecStart(fault)
    \/ \E name \in {"stop", "close"}, fails \in {"none", "send", "drain"} : RecStop(name, fails)
    \/ \E name \in {"stop_and_pull", "close_and_pull"}, fails \in {"none", "send", "drain"},
          pull \in PullOutcomes, rm_ok \in BOOLEAN : RecStopAndPull(name, fails, pull, rm_ok)

(***************************************************************************)
(* BaseDevice.create_connection                                            *)
(***************************************************************************)
\* the members of Network, and a value that is none of them
Networks == {"tcp", "unix", "localabstract", "localfilesystem", "local", "dev",
             "localreserved", "udp"}

\* a command given to send_command: the selector and what follows the colon
Command(selector, rest) == [selector |-> selector, rest |-> rest]
Created(sent, res, conn) == [sent |-> sent, res |-> res, conn |-> conn]

\* create_connection(network, address) with an address that is an int or a str; the
\* host server answers OKAY or FAIL to host:transport:<serial> and to the selector.
\* The result: the commands sent, how the call ended, and the connection c, which no
\* line of the method closes.
CreateConnection(network, int, transport_ok, select_ok) ==
    LET transport == <<Command("host:transport", "serial")>>
        address == IF int THEN "int" ELSE "str"
        select(sel) ==
            IF select_ok
            THEN Created(Append(transport, Command(sel, address)), "returned", "open")
            ELSE Created(Append(transport, Command(sel, address)), "AdbError", "open")
    IN  IF ~transport_ok THEN Created(transport, "AdbError", "open")
        ELSE IF network = "tcp"
        THEN IF int THEN select("tcp") ELSE Created(transport, "AssertionError", "open")
        ELSE IF network \in {"unix", "localabstract"}
        THEN IF ~int THEN select("localabstract")
             ELSE Created(transport, "AssertionError", "open")
        ELSE IF network \in {"localfilesystem", "local", "dev", "localreserved"}
        THEN IF ~int THEN select(network) ELSE Created(transport, "TypeError", "open")
        ELSE Created(transport, "ValueError", "open")

NoCall == [network |-> "", int |-> FALSE, sent |-> <<>>, res |-> "", conn |-> 0]

ConInit ==
    /\ cc_conns = <<>>
    /\ cc_call = NoCall

\* a call of create_connection, from c = self._client._connect() to its return or
\* the exception
ConCall(network, int, transport_ok, select_ok) ==
    /\ Len(cc_conns) < MaxConCalls
    /\ LET r == CreateConnection(network, int, transport_ok, select_ok)
       IN  /\ cc_conns' = Append(cc_conns, r.conn)
           /\ cc_call' = [network |-> network, int |-> int, sent |-> r.sent, res |-> r.res,
                          conn |-> Len(cc_conns) + 1]
    /\ UNCHANGED notCon

ConNext ==
    \E network \in Networks, int \in BOOLEAN, transport_ok \in BOOLEAN, select_ok \in BOOLEAN :
        ConCall(network, int, transport_ok, select_ok)

(***************************************************************************)
(* Specifications                                                          *)
(***************************************************************************)
\* shell2 on a device object with nothing else in use
InitShell ==
    /\ ShellInit
    /\ SyncIdle /\ devmode = "honest" /\ devfile = Absent /\ pushed = NotPushed
    /\ FwdIdle /\ fw_rules = <<>>
    /\ InsIdle /\ InsNoFiles
    /\ PairInit
    /\ RecIdle
    /\ ConInit

SpecShell == InitShell /\ [][ShellNext]_vars

\* the Sync operations, one after the other
InitSync ==
    /\ SyncInit
    /\ ShellInit
    /\ FwdIdle /\ fw_rules = <<>>
    /\ InsIdle /\ InsNoFiles
    /\ PairInit
    /\ RecIdle
    /\ ConInit

SpecSync == InitSync /\ [][SyncNext]_vars

\* forward_port, called by one thread or by several
InitFwd ==
    /\ FwdInit
    /\ ShellInit
    /\ SyncIdle /\ devmode = "honest" /\ devfile = Absent /\ pushed = NotPushed
    /\ InsIdle /\ InsNoFiles
    /\ PairInit
    /\ RecIdle
    /\ ConInit

SpecForwardSeq == InitFwd /\ [][FwdSeqNext]_vars
SpecForward == InitFwd /\ [][FwdNext]_vars

\* install and install_remote, one call after the other
InitIns ==
    /\ InsInit
    /\ ShellInit
    /\ SyncIdle /\ devmode = "honest" /\ devfile = Absent /\ pushed = NotPushed
    /\ FwdIdle /\ fw_rules = <<>>
    /\ PairInit
    /\ RecIdle
    /\ ConInit

SpecInstall == InitIns /\ [][InsNext]_vars

\* two install calls at the same time
InitPair ==
    /\ PairInit
    /\ RecIdle
    /\ ConInit
    /\ ShellInit
    /\ SyncIdle /\ devmode = "honest" /\ devfile = Absent /\ pushed = NotPushed
    /\ FwdIdle /\ fw_rules = <<>>
    /\ InsIdle /\ InsNoFiles

SpecInstallPair == InitPair /\ [][PairNext]_vars

\* one recorder and the calls made on it
InitRec ==
    /\ RecInit
    /\ ShellInit
    /\ SyncIdle /\ devmode = "honest" /\ devfile = Absent /\ pushed = NotPushed
    /\ FwdIdle /\ fw_rules = <<>>
    /\ InsIdle /\ InsNoFiles
    /\ PairInit
    /\ ConInit

SpecRecord == InitRec /\ [][RecNext]_vars

\* calls of create_connection, one after the other
InitCon ==
    /\ ConInit
    /\ ShellInit
    /\ SyncIdle /\ devmode = "honest" /\ devfile = Absent /\ pushed = NotPushed
    /\ FwdIdle /\ fw_rules = <<>>
    /\ InsIdle /\ InsNoFiles
    /\ PairInit
    /\ RecIdle

SpecConnect == InitCon /\ [][ConNext]_vars

(***************************************************************************)
(* Claims about shell2                                                     *)
(***************************************************************************)
Shell2Over == sh_pc \in {"returned", "raised"}
HiLine == <<"h", "i", "\n">>

\* C7: for a command that prints O and ends with status n, after which the shell
\* runs the appended echo, shell2 returns returncode n and output exactly O, also
\* when O holds the marker text, with rstrip on and off.
C7_ExitCodeExtraction ==
    (Shell2Over /\ sh_cmd.kind = "plain")
        => /\ sh_ret.kind = "ShellReturn"
           /\ sh_ret.returncode = sh_cmd.status
           /\ sh_ret.output = sh_cmd.out

\* a command whose own output holds the marker, and ends in white space, returned
\* under rstrip
C7_Witness ==
    /\ sh_pc = "returned"
    /\ sh_cmd.kind = "plain"
    /\ sh_rstrip
    /\ sh_cmd.status = 7
    /\ sh_cmd.out = MAGIC \o <<"\n">>

\* C8: shell2("exit n") returns a ShellReturn with returncode n rather than raising.
C8_ExitCommandReturnsStatus ==
    (Shell2Over /\ sh_cmd.kind = "exit")
        => (sh_ret.kind = "ShellReturn" /\ sh_ret.returncode = sh_cmd.status)

\* C9: for a command printing "hi\n" with status 0, shell2 returns output "hi" with
\* rstrip on and "hi\n" with rstrip off, and returncode 0 in both cases.
C9_RstripHonoured ==
    (Shell2Over /\ sh_cmd.kind = "plain" /\ sh_cmd.out = HiLine /\ sh_cmd.status = 0)
        => /\ sh_ret.kind = "ShellReturn"
           /\ sh_ret.returncode = 0
           /\ sh_ret.output = IF sh_rstrip THEN <<"h", "i">> ELSE HiLine

\* a decimal integer as text: an optional sign and one or more decimal digits, white
\* space around it aside
IsDecimalText(text) ==
    LET t == IntStrip(text)
        body == IF t # <<>> /\ t[1] \in {"+", "-"} THEN Tail(t) ELSE t
    IN  body # <<>> /\ \A i \in 1..Len(body) : IsDigit(body[i])

\* C10: when the buffered output holds no marker, or the text after the last marker
\* is no decimal integer, shell2 raises and returns no ShellReturn.
C10_NeverGuesses ==
    (Shell2Over /\ (RFind(sh_output, MAGIC) = -1
                    \/ ~IsDecimalText(From(sh_output, RFind(sh_output, MAGIC) + Len(MAGIC)))))
        => sh_ret.kind # "ShellReturn"

(***************************************************************************)
(* Claims about class Sync                                                 *)
(***************************************************************************)
SyncOver == sy_pc = "done"

\* C1: every connection _prepare_sync opens is closed exactly once on every exit:
\* return, FAIL in the handshake, a bad or failing response, the consumer closing a
\* lazy iterator early.  No operation is over with a connection open, none is closed
\* twice, and only the connection of the running exchange is open.
C1_ConnectionClosedOnce ==
    /\ \A i \in 1..Len(conns) : conns[i] <= 1
    /\ \A i \in 1..(Len(conns) - 1) : conns[i] = 1
    /\ sy_pc \in {"done", "connect", "push_check"} => \A i \in 1..Len(conns) : conns[i] = 1
    /\ sy_pc \notin {"idle", "done", "connect", "push_check"} => conns[Len(conns)] = 0

\* the caller of iter_content closed the iterator with frames unread
C1_Witness ==
    /\ SyncOver
    /\ sy_op.kind = "iter_content"
    /\ sy_res.kind = "closed"
    /\ inbuf # <<>>
    /\ conns = <<1>>

\* C2: on a device that stores exactly the DATA payloads it gets, read_bytes(dst),
\* and the file pull(dst, local) writes, equal the bytes B of the push that returned
\* before, for every B: empty, and of a length that is no multiple of 4096.
C2_RoundTrip ==
    (SyncOver /\ devmode = "honest" /\ pushed.known /\ sy_res.kind = "returned")
        => /\ sy_op.kind = "read_bytes" => sy_res.value = pushed.data
           /\ sy_op.kind = "pull" =>
                 (localfile = pushed.data /\ sy_res.value = Len(pushed.data))

\* read_bytes gave back a pushed source of 4097 bytes
C2_Witness ==
    /\ SyncOver
    /\ devmode = "honest"
    /\ sy_op.kind = "read_bytes"
    /\ sy_res.kind = "returned"
    /\ pushed.known
    /\ Len(pushed.data) = CHUNK + 1
    /\ sy_res.value = pushed.data

\* the frames on the SEND connection of the running push, read as the device reads
SentFrames == DeviceParse(SentBody(wire[1]), <<>>)
InPush == sy_op.kind = "push" /\ Len(wire) >= 1 /\ wire[1] # <<>>
\* a send of the while loop of push raised (the send of the STAT request of the
\* check comes after the loop)
SendBroke == SyncOver /\ sy_cmd = SEND /\ sy_res.error = "BrokenPipeError"
\* the while loop of push has ended by its break
LoopLeft == ~(sy_pc = "push_read" \/ SendBroke)

\* C3: after the SEND header push sends DATA frames of 1..4096 bytes whose payloads
\* are the source in order, then one DONE frame and nothing more; no DATA frame is
\* empty or follows DONE; an empty source gives DONE alone; push returns the number
\* of bytes of the source.  (A push whose send raises has sent whole frames of a
\* prefix of the source, and at most the header of one more.)
C3_PushFraming ==
    InPush =>
        /\ \A i \in 1..Len(SentFrames.chunks) :
              Len(SentFrames.chunks[i]) \in 1..CHUNK
        /\ ~SendBroke =>
              /\ SentFrames.rest = <<>>
              /\ Concat(SentFrames.chunks) = SubSeq(src.data, 1, src.pos)
        /\ SendBroke =>
              /\ Concat(SentFrames.chunks) =
                    SubSeq(src.data, 1, Len(Concat(SentFrames.chunks)))
              /\ SentFrames.rest \in {<<>>} \cup {DATA \o Pack32(n) : n \in 1..CHUNK}
        /\ SentFrames.ok <=> LoopLeft
        /\ LoopLeft => Concat(SentFrames.chunks) = src.data
        /\ (SyncOver /\ sy_res.kind = "returned") => sy_res.value = Len(src.data)

\* a stream of 4097 bytes went out in three DATA frames, and push returned
C3_Witness ==
    /\ SyncOver
    /\ sy_op.kind = "push"
    /\ sy_res.kind = "returned"
    /\ Len(src.data) = CHUNK + 1
    /\ Len(SentFrames.chunks) = 3
    /\ sy_res.value = CHUNK + 1

\* C4: with check, push raises the transfer error iff the size of the STAT differs
\* from the bytes sent; the STAT goes out on a new connection after the SEND
\* connection got OKAY and was closed; SEND is not sent again; without check there
\* is no STAT.
C4_PushVerification ==
    sy_op.kind = "push" =>
        /\ Len(conns) <= 2
        /\ Len(conns) = 2 =>
              /\ sy_op.check
              /\ status = OKAY
              /\ conns[1] = 1
              /\ sy_cmd = STAT
              /\ wire[2] \in {<<>>, Request(STAT, DstPath).bytes}
        /\ (SyncOver /\ statinfo # NoInfo) =>
              /\ (sy_res.kind = "raised" /\ sy_res.error = "AdbError")
                    <=> statinfo.size # total_size
              /\ (sy_res.kind = "returned" /\ sy_res.value = total_size)
                    <=> statinfo.size = total_size
        /\ (SyncOver /\ sy_res.kind = "returned" /\ sy_op.check) => statinfo # NoInfo

\* a checked push of two bytes raised on a STAT that reports another size
C4_Witness ==
    /\ SyncOver
    /\ sy_op.kind = "push"
    /\ sy_op.check
    /\ total_size = 2
    /\ statinfo.size = CHUNK + 1
    /\ sy_res.error = "AdbError"

\* the frames a RECV answer is well made of, and what they carry
GoodData == {FrameDATA(<<7>>), FrameDATA(<<7, 200>>), FrameDATA(<<>>)}
Payload(frame) == From(frame, 8)
RECURSIVE Payloads(_)
Payloads(fs) == IF fs = <<>> THEN <<>> ELSE <<Payload(Head(fs))>> \o Payloads(Tail(fs))

\* the generator ran to its end: the consumer did not close it
RecvOver == SyncOver /\ sy_cmd = RECV /\ devmode = "faulty" /\ sy_res.kind # "closed"
                     /\ Len(wire) = 1 /\ wire[1] # <<>>
\* frames 1..k-1 are DATA segments and frame k is `last`
DataThen(k, last) ==
    /\ k \in 1..Len(frames)
    /\ \A i \in 1..(k - 1) : frames[i] \in GoodData
    /\ frames[k] = last
\* what the consumer has of the chunks
Received == IF sy_op.kind = "pull" THEN localfile ELSE Concat(yielded)

\* C5: a FAIL segment, first or after DATA segments, makes iter_content raise an
\* error with the device's text, after the chunks before it and none after, with
\* nothing read beyond the FAIL segment and the connection closed; DONE at once
\* gives no chunk, and pull returns 0.
C5_PullFailure ==
    RecvOver =>
        /\ \A k \in 1..Len(frames) :
              DataThen(k, FrameFAIL(NoText)) =>
                 /\ sy_res.kind = "raised"
                 /\ sy_res.error = "AdbError"
                 /\ sy_res.msg = NoText
                 /\ Received = Concat(Payloads(SubSeq(frames, 1, k - 1)))
                 /\ sy_op.kind # "pull" => yielded = Payloads(SubSeq(frames, 1, k - 1))
                 /\ inbuf = Concat(SubSeq(frames, k + 1, Len(frames)))
                 /\ conns = <<1>>
        /\ DataThen(1, DONE) =>
              /\ sy_res.kind = "returned"
              /\ yielded = <<>>
              /\ localfile = <<>>
              /\ sy_op.kind = "pull" => sy_res.value = 0

\* FAIL came after a DATA segment and before another frame, which stays unread
C5_Witness ==
    /\ RecvOver
    /\ sy_op.kind = "iter_content"
    /\ Len(frames) = 3
    /\ DataThen(2, FrameFAIL(NoText))
    /\ yielded = <<Payload(frames[1])>>
    /\ sy_res.error = "AdbError"
    /\ inbuf = frames[3]

\* the codes an exchange expects, and its well made frames that are not the last
Expected(cmd) ==
    CASE cmd = STAT -> {STAT}
      [] cmd = LIST -> {DENT, DONE}
      [] cmd = SEND -> {OKAY}
      [] OTHER -> {DATA, DONE, FAIL}
GoodFrames(cmd) ==
    CASE cmd = LIST -> {FrameDENT(DirMode, 1, 77, <<97>>), FrameDENT(DirMode, 2, 0, <<98, 99>>)}
      [] cmd = RECV -> GoodData
      [] OTHER -> {}
\* frame k is the first that is not well made, and its code is not an expected one
UnknownAt(k) ==
    /\ k \in 1..Len(frames)
    /\ \A i \in 1..(k - 1) : frames[i] \in GoodFrames(sy_cmd)
    /\ Recv(frames[k], 4) \notin Expected(sy_cmd)
\* an exchange with a faulty server is over, and not by the consumer's close
ExchangeOver ==
    /\ devmode = "faulty"
    /\ \/ SyncOver /\ sy_res.kind # "closed" /\ Len(wire) >= 1 /\ wire[Len(wire)] # <<>>
       \/ sy_pc = "push_check"

\* C6: in every exchange a response frame whose code is not an expected one makes
\* the operation raise at that frame: the bytes after the code are not read, no
\* item is yielded for it, no further frame is read.
C6_UnknownFrameFailsFast ==
    ExchangeOver =>
        \A k \in 1..Len(frames) :
            UnknownAt(k) =>
               /\ sy_res.kind = "raised"
               /\ Len(yielded) = (IF sy_op.kind = "pull" THEN 0 ELSE k - 1)
               /\ inbuf = From(Concat(SubSeq(frames, k, Len(frames))), Len(Recv(frames[k], 4)))

(***************************************************************************)
(* Claims about forward_port                                               *)
(***************************************************************************)
\* the rules of this device that forward a local tcp port to `remote`
OwnTcpRules(remote) ==
    {k \in 1..Len(fw_rules) :
        /\ fw_rules[k].serial = Serial
        /\ fw_rules[k].remote = remote
        /\ StartsWith(fw_rules[k].local, TcpPrefix)}
\* the remotes of the calls that have returned
Forwarded == {fw_hist[i].remote : i \in 1..Len(fw_hist)}
\* no forward(local, remote) was called since call i returned and before call j returned
NoForwardBetween(i, j) == \A k \in 1..Len(fw_fwd) : ~(i <= fw_fwd[k].at /\ fw_fwd[k].at < j)
\* no forward(local, remote) was called since call i returned
NoForwardSince(i) == NoForwardBetween(i, Len(fw_hist) + 1)

\* C11: called one after the other with no rule removed or replaced in between (no
\* call of forward), forward_port(remote) returns the same local port each time and
\* only the first call may create a rule; when the rules of this device are all made
\* by forward_port there is then exactly one with a tcp local endpoint for the
\* remote; an int N stands for "tcp:N"; the port returned is that of a rule of this
\* device with a tcp local endpoint, never of a rule of another serial or another
\* endpoint.
C11_ForwardIdempotent ==
    /\ \A i \in 1..Len(fw_hist) :
          /\ fw_hist[i].ret.kind = "returned"
          /\ fw_hist[i].arg.int => fw_hist[i].remote = TcpSpec(fw_hist[i].arg.n)
          /\ ~fw_hist[i].arg.int => fw_hist[i].remote = fw_hist[i].arg.text
          /\ NoForwardSince(i) =>
                \E k \in OwnTcpRules(fw_hist[i].remote) :
                    fw_rules[k].local = TcpSpec(fw_hist[i].ret.port)
    /\ \A i \in 1..Len(fw_hist), j \in 1..Len(fw_hist) :
          (i < j /\ fw_hist[i].remote = fw_hist[j].remote /\ NoForwardBetween(i, j)) =>
              /\ fw_hist[j].ret.port = fw_hist[i].ret.port
              /\ ~fw_hist[j].ret.created
    /\ fw_fwd = <<>> => \A r \in Forwarded : Cardinality(OwnTcpRules(r)) = 1

\* forward_port(7912), then forward_port("tcp:7912"), with a rule of another serial
\* and a rule with a local: endpoint for tcp:7912 in the registry from the start
C11_Witness ==
    /\ Len(fw_hist) >= 2
    /\ fw_hist[1].arg = IntArg(7912)
    /\ fw_hist[2].arg = StrArg(TcpSpec(7912))
    /\ fw_hist[1].ret.created
    /\ ~fw_hist[2].ret.created
    /\ fw_hist[2].ret.port = fw_hist[1].ret.port
    /\ \E k \in 1..Len(fw_rules) : fw_rules[k].serial = OtherSerial
    /\ \E k \in 1..Len(fw_rules) : fw_rules[k].local = LocalSpec

\* C12: whatever the interleaving of concurrent forward_port calls for one remote,
\* the registry never has more than one rule of this device with a tcp local
\* endpoint for it, and the calls all return the same port.
C12_ConcurrentSingleRule ==
    fw_fwd = <<>> =>
        /\ \A r \in {TcpSpec(7912), TcpSpec(8000)} : Cardinality(OwnTcpRules(r)) <= 1
        /\ \A i \in 1..Len(fw_hist), j \in 1..Len(fw_hist) :
              fw_hist[i].remote = fw_hist[j].remote =>
                  fw_hist[j].ret.port = fw_hist[i].ret.port

(***************************************************************************)
(* Claims about install and install_remote                                 *)
(***************************************************************************)
InInstall == ins_args.kind = "install"
InsOver == ins_pc = "done"
\* the places of a command in the log
At(cmds) == {i \in 1..Len(ins_log) : ins_log[i].cmd \in cmds}
Runs == At({"pm install"})
Uninstalls == At({"uninstall"})
Launches == At({"am start", "monkey"})
Removals == At({"rm"})
FirstRun == CHOOSE i \in Runs : \A j \in Runs : i <= j
LastRun == CHOOSE i \in Runs : \A j \in Runs : j <= i
\* the uninstalls of the except clause: those after the first installer run
HandlerUninstalls == {i \in Uninstalls : i > FirstRun}
\* the call ended with an error of the transport, not of the workflow
TransportError == ins_res.exc.error \in {"BrokenPipeError", "TypeError"}
\* the installer's output reports success: it says Success, and not within the
\* report of a failure
ReportsSuccess(output) == HasSuccess(output) /\ Reason(output) = Unknown
\* the first installer run failed with one of `reasons`
FirstFailed(reasons) ==
    /\ InInstall
    /\ Len(ins_outs) >= 1
    /\ ~ReportsSuccess(ins_outs[1])
    /\ Reason(ins_outs[1]) \in reasons
Recognized == UninstallReasons \cup {CancelledReason}

\* C13: after a first installer run that failed with a downgrade, permission-model
\* downgrade or update-incompatible reason, install uninstalls once and then runs the
\* installer once more, never a third time and never with a second uninstall; if
\* the second run reports success install returns, with the launch unless nolaunch;
\* if it fails, its AdbInstallError reaches the caller.
C13_UninstallThenRetryOnce ==
    FirstFailed(UninstallReasons) =>
        /\ Len(ins_outs) <= 2
        /\ Cardinality(HandlerUninstalls) <= 1
        /\ Len(ins_outs) = 2 =>
              /\ Cardinality(HandlerUninstalls) = 1
              /\ \A u \in HandlerUninstalls : FirstRun < u /\ u < LastRun
        /\ (InsOver /\ ~TransportError) =>
              /\ Len(ins_outs) = 2
              /\ IF ReportsSuccess(ins_outs[2])
                 THEN /\ ins_res.kind = "returned"
                      /\ Cardinality(Launches) = (IF ins_args.nolaunch THEN 0 ELSE 1)
                 ELSE /\ ins_res = InsRes("raised", AdbInstallError(ins_outs[2]))
                      /\ Launches = {}

\* C14: after a first installer run that failed with a reason that is none of the
\* four, install raises the AdbInstallError with that reason; the installer has run
\* once, the except clause has not uninstalled, nothing was launched, no rm was
\* issued, and the file is still at the path given to the installer.
C14_UnrecognizedFailureRaises ==
    FirstFailed({Reason(o) : o \in InstallerOutputs} \ Recognized) =>
        /\ Len(ins_outs) = 1
        /\ HandlerUninstalls = {}
        /\ Launches = {}
        /\ Removals = {}
        /\ ins_files.new # NoFile
        /\ ins_pc \in {"handler", "exit", "done"}
        /\ InsOver =>
              /\ ins_res = InsRes("raised", AdbInstallError(ins_outs[1]))
              /\ ins_res.exc.reason = Reason(ins_outs[1])

\* C15: after a first installer run that failed with INSTALL_FAILED_CANCELLED_BY_USER,
\* install runs the installer once more on the same path with no uninstall; if that
\* run fails, its error reaches the caller and the installer is not run again.
C15_CancelledRetriesOnce ==
    FirstFailed({CancelledReason}) =>
        /\ Len(ins_outs) <= 2
        /\ HandlerUninstalls = {}
        /\ \A i \in Runs : ins_log[i].path = ins_log[FirstRun].path
        /\ (InsOver /\ ~TransportError) =>
              /\ Len(ins_outs) = 2
              /\ ReportsSuccess(ins_outs[2]) => ins_res.kind = "returned"
              /\ ~ReportsSuccess(ins_outs[2]) =>
                    ins_res = InsRes("raised", AdbInstallError(ins_outs[2]))

\* C16: whenever install returns, the app was started exactly once unless nolaunch
\* (am start with a main activity, monkey without one), never with nolaunch, and
\* after the installer run that succeeded.
C16_LaunchAfterInstall ==
    (InInstall /\ InsOver /\ ins_res.kind = "returned") =>
        /\ Cardinality(Launches) = (IF ins_args.nolaunch THEN 0 ELSE 1)
        /\ \A l \in Launches : ins_log[l] = AppStart(ins_args.activity) /\ l > LastRun

\* C17: install gives the device an uninstall or a pm install only after the stat of
\* the renamed staged file (the file that was pushed, at the path the rename gave
\* it) gave the size r.copied; when the sizes differ the attempt ends with an error
\* before any of them, and no other attempt follows.
C17_VerifyBeforeInstall ==
    InInstall =>
        /\ \A i \in Runs \cup Uninstalls :
              /\ ins_mv = "ok"
              /\ ins_info = ins_copied
              /\ \E j \in At({"stat"}), k \in At({"mv"}) :
                    k < j /\ j < i /\ ins_log[j].path = "new"
        /\ (ins_info # NoFile /\ ins_info # ins_copied) =>
              /\ ins_pc \in {"exit", "done"}
              /\ Runs \cup Uninstalls = {}
              /\ ins_attempts = 1
              /\ InsOver => ins_res = InsRes("raised", Exc("AssertionError", <<>>, <<>>))

\* C18: when the device did not rename the file, the attempt fails and the
\* installer is not run, whatever was on the device before.
C18_RenameFailureFatal ==
    (InInstall /\ ins_mv = "failed") =>
        /\ Runs = {}
        /\ ins_pc \in {"stat", "exit", "done"}
        /\ InsOver => ins_res.kind = "raised"

\* C19: install_remote gives the device an rm of the package file only after the
\* installer's output reported success and only with clean; when the output reports
\* no success it raises AdbInstallError with the output and gives no rm; without
\* clean the file is as it was, after success and after failure.
C19_CleanOnlyOnSuccess ==
    /\ \A i \in Removals :
          /\ ins_args.clean
          /\ i - 1 \in Runs
          /\ ins_log[i].path = ins_log[i - 1].path
          /\ ReportsSuccess(ins_outs[Cardinality({j \in Runs : j < i})])
    /\ (ins_args.kind = "install_remote" /\ InsOver) =>
          /\ Len(ins_outs) = 1
          /\ IF ReportsSuccess(ins_outs[1])
             THEN /\ ins_res.kind = "returned"
                  /\ Cardinality(Removals) = (IF ins_args.clean THEN 1 ELSE 0)
                  /\ ins_files = (IF ins_args.clean THEN Remove(ins_files0, "new")
                                  ELSE ins_files0)
             ELSE /\ ins_res = InsRes("raised", AdbInstallError(ins_outs[1]))
                  /\ ins_res.exc.output = ins_outs[1]
                  /\ Removals = {}
                  /\ ins_files = ins_files0

\* C20: one call runs the body three times at most; only a broken pipe starts a new
\* attempt; any other error ends the call at once; a broken pipe ends the call only
\* at the third attempt, and is then what the caller gets.
C20_BoundedRetry ==
    InInstall =>
        /\ ins_attempts <= Tries
        /\ ins_attempts >= 1 => ins_attempts - 1 <= Tries - ins_tries
        /\ (InsOver /\ ins_err = NoExc) => ins_res.kind = "returned"
        /\ (InsOver /\ ins_err # NoExc /\ ins_err.error # "BrokenPipeError") =>
              ins_res = InsRes("raised", ins_err)
        /\ (InsOver /\ ins_err.error = "BrokenPipeError") =>
              /\ ins_attempts = Tries
              /\ ins_res = InsRes("raised", BrokenPipe)

(***************************************************************************)
(* Further claims about class Sync                                         *)
(***************************************************************************)
\* a listing is over: iter_directory run to its end, or list
ListOver ==
    /\ SyncOver
    /\ sy_op.kind \in {"iter_directory", "list"}
    /\ sy_res.kind # "closed"
    /\ Len(wire) = 1 /\ wire[1] # <<>>
\* the entry a well made DENT frame stands for
EntryOf(frame) ==
    IF frame = FrameDENT(DirMode, 1, 77, <<97>>) THEN FileInfo(DirMode, 1, 77, <<97>>)
    ELSE FileInfo(DirMode, 2, 0, <<98, 99>>)
\* the response is k entries, then DONE, then whatever the server sends after it
EntriesThenDone(k) ==
    /\ Len(frames) > k
    /\ \A i \in 1..k : frames[i] \in GoodFrames(LIST)
    /\ frames[k + 1] = DONE

\* C24: a LIST response of k >= 0 DENT entries and DONE makes iter_directory yield
\* the k FileInfo values of the entries in wire order and return at the DONE with
\* nothing after it read; the listing of each call is asked for by a LIST request of
\* its own on the connection the call opened.
C24_ListTermination ==
    ListOver =>
        /\ conns = <<1>>
        /\ wire[1] = Request(LIST, DstPath).bytes
        /\ devmode = "faulty" =>
              \A k \in 0..(Len(frames) - 1) :
                  EntriesThenDone(k) =>
                     /\ sy_res = Res("returned", "", <<>>, [i \in 1..k |-> EntryOf(frames[i])])
                     /\ yielded = [i \in 1..k |-> EntryOf(frames[i])]
                     /\ inbuf = Concat(SubSeq(frames, k + 2, Len(frames)))
                     /\ rdcount = Len(Concat(SubSeq(frames, 1, k))) + 4
        /\ devmode = "honest" =>
              /\ sy_res.kind = "returned"
              /\ inbuf = <<>>
              /\ yielded = IF devfile.exists
                           THEN <<FileInfo(FileMode, Len(devfile.data), devfile.mtime, <<102>>)>>
                           ELSE <<>>

\* two entries in wire order, then DONE
C24_Witness ==
    /\ ListOver
    /\ devmode = "faulty"
    /\ frames = <<FrameDENT(DirMode, 2, 0, <<98, 99>>), FrameDENT(DirMode, 1, 77, <<97>>), DONE>>
    /\ yielded = <<FileInfo(DirMode, 2, 0, <<98, 99>>), FileInfo(DirMode, 1, 77, <<97>>)>>
    /\ rdcount = Len(Concat(frames))

\* C26: push closes the readable it opened or was given on every exit: after the
\* transfer, after a status that is not OKAY, after a send error, and when the
\* connection or the handshake fails before any data is sent.
C26_PushReleasesSource ==
    (SyncOver /\ sy_op.kind = "push") => ~src.open

(***************************************************************************)
(* Further claims about install                                            *)
(***************************************************************************)
\* the attempt is before the try block, or has left the body from there: in push,
\* parse, rename, the stat and its assert, or the uninstall before the install
BeforeTry ==
    \/ ins_pc \in {"body", "push", "parse", "rename", "stat", "uninstall_first"}
    \/ ins_pc = "exit" /\ ~ins_try
\* the installer run at place r of the log is between the BEFORE_INSTALL at place i
\* of the events and the FINALLY after it
RunWithin(r, i) ==
    /\ ins_cb[i].event = "BEFORE_INSTALL"
    /\ ins_cb[i].at < r
    /\ i < Len(ins_cb) => r <= ins_cb[i + 1].at

\* C27: the events the callback of one install call gets alternate BEFORE_INSTALL,
\* FINALLY, over any number of attempts: a FINALLY follows every BEFORE_INSTALL
\* before the attempt ends, however it ends; there is no FINALLY without a
\* BEFORE_INSTALL before it; every installer run is after the BEFORE_INSTALL of its
\* attempt and before its FINALLY; an attempt delivers one pair at most, and nothing
\* in push, parse, rename or verification nor when it fails there; without a
\* callback nothing is delivered.
C27_CallbackNesting ==
    /\ [](InInstall =>
            /\ \A i \in 1..Len(ins_cb) :
                  ins_cb[i].event = IF i % 2 = 1 THEN "BEFORE_INSTALL" ELSE "FINALLY"
            /\ Len(ins_cb) % 2 = (IF ins_try /\ ins_args.callback THEN 1 ELSE 0)
            /\ ~ins_args.callback => ins_cb = <<>>
            /\ Len(ins_cb) <= 2 * ins_attempts
            /\ BeforeTry => ~ins_try
            /\ ins_args.callback =>
                  \A r \in Runs : \E i \in 1..Len(ins_cb) : RunWithin(r, i))
    /\ [][(InInstall /\ BeforeTry) => ins_cb' = ins_cb]_vars

\* the first run failed, the run of the handler failed too: one pair of events
C27_Witness ==
    /\ InInstall /\ InsOver
    /\ ins_args.callback
    /\ Len(ins_outs) = 2
    /\ ins_res.kind = "raised"
    /\ Len(ins_cb) = 2
    /\ ins_cb[1].event = "BEFORE_INSTALL" /\ ins_cb[2].event = "FINALLY"
    /\ ins_cb[1].at < FirstRun /\ LastRun <= ins_cb[2].at

\* the workflows that are at work on the device
AtWork == {w \in Workflows :
              ci_wf[w].pc \in {"push", "rename", "verify", "install", "clean"}}

\* C25: two install workflows that run at the same time never have the same staging
\* path, temporary or renamed, and so each installs the file it pushed: none finds
\* its file replaced or gone.
C25_NoStagingCollision ==
    /\ \A w \in AtWork, v \in AtWork : w # v => ci_wf[w].dst # ci_wf[v].dst
    /\ \A w \in Workflows :
          /\ ci_wf[w].pc # "failed"
          /\ ci_wf[w].pc = "done" => ci_wf[w].got = w

(***************************************************************************)
(* Claims about _ScreenRecord                                              *)
(***************************************************************************)
OnStream == {"send", "drain", "close"}
\* what was done on the stream, in order
Chan == SelectSeq(rec_log, LAMBDA e : e.op \in OnStream)
Closes == {i \in 1..Len(rec_log) : rec_log[i].op = "close"}
\* the stop sequence on stream sid
StopSequence(sid) == <<Done("send", sid, TRUE), Done("drain", sid, TRUE), Done("close", sid, TRUE)>>
\* no send and no read on the stream has raised
StreamSound == \A i \in 1..Len(rec_log) : rec_log[i].op \in OnStream => rec_log[i].ok
LastCall == IF rec_calls = <<>> THEN "" ELSE rec_calls[Len(rec_calls)]
StopNames == {"stop", "close"}
PullNames == {"stop_and_pull", "close_and_pull"}

\* C21: over any number of stop() / close() calls on a started recorder the stop
\* sequence, send ETX, drain, close the stream, is done once and in that order, and
\* a stop after it sends nothing and closes nothing; stop() on a recorder that was never
\* started raises and touches no stream.  (A stop whose send or read raised has not
\* stopped the recorder: the sequence is done once where none of them raises.)
C21_StopIdempotent ==
    /\ Cardinality(Closes) <= 1
    /\ rec.stopped <=> Closes # {}
    /\ \A i \in Closes :
          /\ i >= 3
          /\ SubSeq(rec_log, i - 2, i) = StopSequence(rec.stream)
          /\ \A j \in (i + 1)..Len(rec_log) : rec_log[j].op \notin OnStream
    /\ StreamSound => Chan \in {<<>>, StopSequence(rec.stream)}
    /\ ~rec.started => Chan = <<>>
    /\ LastCall \in StopNames =>
          /\ ~rec.started => rec_res = "RuntimeError"
          /\ (rec.started /\ StreamSound) => (rec_res = "returned" /\ Chan = StopSequence(rec.stream))

\* start(), stop(), close(): the second stop found the recorder stopped
C21_Witness ==
    /\ rec_calls = <<"start", "stop", "close">>
    /\ rec_log = <<Done("open", 1, TRUE)>> \o StopSequence(1)
    /\ rec_res = "returned"

\* C22: over every sequence of start, stop and stop_and_pull calls on one recorder,
\* made with autostart or without, one streaming shell session is opened at most; a
\* start on a started recorder warns and returns and leaves the stream and the
\* started and stopped flags as they were.
C22_SingleRecording ==
    /\ [](/\ Cardinality(Opened(rec_log)) <= 1
          /\ rec.started <=> Opened(rec_log) # {}
          /\ rec.started => rec.stream = 1
          /\ ~rec.started => rec.stream = 0)
    /\ [][(rec.started /\ rec_calls' # rec_calls /\ LastCall' = "start") =>
              (rec' = rec /\ rec_log' = rec_log /\ rec_res' = "warned")]_vars

\* start() on a recorder that has been started and stopped
C22_Witness ==
    /\ rec_calls = <<"start", "stop", "start">>
    /\ rec = Rec(TRUE, TRUE, 1)
    /\ rec_res = "warned"
    /\ Cardinality(Opened(rec_log)) = 1

\* C28: in stop_and_pull the pull starts only when the stop sequence is done and the
\* stream closed; the remote video is removed only after a pull that completed; when
\* stop or the pull raises no remove is issued; on a recorder never started it raises
\* before any pull or remove.
C28_StopPullRemoveOrder ==
    /\ \A i \in 1..Len(rec_log) :
          /\ rec_log[i].op = "pull" =>
                \E j \in 1..(i - 1) : rec_log[j] = Done("close", rec.stream, TRUE)
          /\ rec_log[i].op = "rm" => (i >= 2 /\ rec_log[i - 1] = Done("pull", 0, TRUE))
    /\ ~rec.started => \A i \in 1..Len(rec_log) : rec_log[i].op \notin {"pull", "rm"}
    /\ LastCall \in PullNames =>
          /\ ~rec.started => rec_res = "RuntimeError"
          /\ rec_res = "returned" =>
                /\ Len(rec_log) >= 2
                /\ SubSeq(rec_log, Len(rec_log) - 1, Len(rec_log))
                      = <<Done("pull", 0, TRUE), Done("rm", 0, TRUE)>>
          /\ rec_res = "AdbError" => rec_log[Len(rec_log)] = Done("pull", 0, FALSE)
          /\ (rec.started /\ rec_res \in {"RuntimeError", "struct.error"}) =>
                rec_log[Len(rec_log)] = Done("pull", 0, FALSE)
          /\ (rec.started /\ rec_res # "returned") => ~rec_log[Len(rec_log)].ok

\* stop_and_pull on a recording: stop sequence, pull, remove
C28_Witness ==
    /\ rec_calls = <<"start", "stop_and_pull">>
    /\ rec_log = <<Done("open", 1, TRUE)>> \o StopSequence(1)
                    \o <<Done("pull", 0, TRUE), Done("rm", 0, TRUE)>>
    /\ rec_res = "returned"

(***************************************************************************)
(* Claims about create_connection                                          *)
(***************************************************************************)
\* C23: when the host server answers FAIL to host:transport:<serial> or to the
\* network selector, or the network type is not supported, create_connection raises
\* and the connection it opened is closed by then; only a call that returns hands
\* an open connection to its caller.
C23_ReleasedOnFailure ==
    cc_call # NoCall =>
        /\ cc_call.res # "returned" => cc_conns[cc_call.conn] = "closed"
        /\ cc_call.res = "returned" => cc_conns[cc_call.conn] = "open"

=============================================================================
